---- MODULE Spec2Model ----
(***************************************************************************)
(* Model of the Optima-Pricer backend: the price optimizer                 *)
(* (services/price_optimizer.py) and the recommendation lifecycle          *)
(* (blueprints/recommendations.py, blueprints/products.py).                *)
(*                                                                         *)
(* Numbers.  Python floats are modelled as exact rationals <<n, d>> with   *)
(* d > 0, kept in lowest terms.  Money is counted in cents, so 97.50 is    *)
(* <<9750, 1>> and round(x, 2) is rounding to a whole number of cents.     *)
(* round() is round-half-to-even, as Python's round is on a value that is  *)
(* exactly halfway.  Percentages and elasticities are plain rationals.     *)
(***************************************************************************)
EXTENDS Integers, Sequences, FiniteSets, TLC

VARIABLES
    products,         \* Product rows: product id -> row
    recommendations,  \* Recommendation rows, in insertion order
    market_data,      \* MarketData rows, in insertion order
    now,              \* the wall clock, in minutes
    last,             \* the request handled last and its HTTP response
    reqs,             \* create_recommendation requests in flight
    ids,              \* the row ids generate_id has handed out, by table
    call              \* the pure-function call under examination

vars == <<products, recommendations, market_data, now, last, reqs, ids, call>>

-----------------------------------------------------------------------------
(* Float arithmetic, as exact rationals.                                   *)

Abs(x) == IF x < 0 THEN -x ELSE x

RECURSIVE GCD(_, _)
GCD(a, b) == IF b = 0 THEN a ELSE GCD(b, a % b)

\* what a division by zero leaves behind: Python raises ZeroDivisionError,
\* and every value computed from the quotient is lost with it
DivZero == <<0, 0>>

Rat(n, d) ==
    IF d = 0 THEN DivZero
    ELSE LET g == GCD(Abs(n), d) IN
         IF g = 0 THEN <<0, 1>> ELSE <<n \div g, d \div g>>

R(n) == <<n, 1>>

Zero == R(0)

\* sums and products are taken over reduced terms, so that the numbers stay
\* as small as the result allows
RAdd(a, b) ==
    IF a[2] = 0 \/ b[2] = 0 THEN DivZero
    ELSE LET g == GCD(a[2], b[2]) IN
         Rat(a[1] * (b[2] \div g) + b[1] * (a[2] \div g), (a[2] \div g) * b[2])

RSub(a, b) == RAdd(a, <<-b[1], b[2]>>)

RMul(a, b) ==
    IF a[2] = 0 \/ b[2] = 0 THEN DivZero
    ELSE LET g1 == GCD(Abs(a[1]), b[2])
             g2 == GCD(Abs(b[1]), a[2])
         IN  IF g1 = 0 \/ g2 = 0 THEN Zero
             ELSE Rat((a[1] \div g1) * (b[1] \div g2), (a[2] \div g2) * (b[2] \div g1))

\* a / b; DivZero when b is zero
RDiv(a, b) ==
    IF b[1] = 0 THEN DivZero
    ELSE IF b[1] > 0 THEN RMul(a, <<b[2], b[1]>>)
    ELSE RMul(a, <<-b[2], -b[1]>>)

\* a < b by whole parts and then, Euclid's way, by the reciprocals of the
\* fractional parts: no product is formed
RECURSIVE RLtEuclid(_, _)
RLtEuclid(a, b) ==
    LET fa == a[1] \div a[2]
        fb == b[1] \div b[2]
        ra == a[1] - fa * a[2]
        rb == b[1] - fb * b[2]
    IN  IF fa # fb THEN fa < fb
        ELSE IF rb = 0 THEN FALSE
        ELSE IF ra = 0 THEN TRUE
        ELSE RLtEuclid(<<b[2], rb>>, <<a[2], ra>>)

\* the numbers whose products fit the machine integers of the model checker
Small(a) == Abs(a[1]) < 46340 /\ a[2] < 46340

RLt(a, b) ==
    IF a[2] = 0 \/ b[2] = 0 THEN FALSE
    ELSE IF Small(a) /\ Small(b) THEN a[1] * b[2] < b[1] * a[2]
    ELSE RLtEuclid(a, b)

RLe(a, b) ==
    IF a[2] = 0 \/ b[2] = 0 THEN FALSE
    ELSE a = b \/ RLt(a, b)

RAbs(a) == <<Abs(a[1]), a[2]>>

\* round(q) to the nearest integer, ties to even
RoundHalfEven(q) ==
    LET f == q[1] \div q[2]
        r == q[1] - f * q[2]
    IN  IF r < q[2] - r THEN f
        ELSE IF r > q[2] - r THEN f + 1
        ELSE IF f % 2 = 0 THEN f ELSE f + 1

\* round(x, 2) of an amount in cents
Round2(q) == IF q[2] = 0 THEN DivZero ELSE R(RoundHalfEven(q))

\* round(x, 1) of a percentage or a demand: the whole part keeps its tenths,
\* the fractional part is rounded to tenths
Round1(q) ==
    IF q[2] = 0 THEN DivZero
    ELSE LET f == q[1] \div q[2]
             r == q[1] - f * q[2]
         IN  Rat(10 * f + RoundHalfEven(<<10 * r, q[2]>>), 10)

\* round(x) of an amount in cents: a whole number of currency units
Round0(q) ==
    IF q[2] = 0 THEN DivZero
    ELSE R(100 * RoundHalfEven(RMul(q, <<1, 100>>)))

RECURSIVE RSum(_)
RSum(s) == IF s = <<>> THEN Zero ELSE RAdd(Head(s), RSum(Tail(s)))

RECURSIVE RMin(_)
RMin(s) ==
    IF Len(s) = 1 THEN s[1]
    ELSE LET m == RMin(Tail(s)) IN IF RLe(s[1], m) THEN s[1] ELSE m

RECURSIVE RMax(_)
RMax(s) ==
    IF Len(s) = 1 THEN s[1]
    ELSE LET m == RMax(Tail(s)) IN IF RLe(m, s[1]) THEN s[1] ELSE m

-----------------------------------------------------------------------------
(* PriceOptimizer.optimize_price                                           *)

\* the margin taken whenever the price is not negative
CurrentMarginUnguarded(current_price, cost_price) ==
    IF RLe(Zero, current_price)
    THEN RMul(RDiv(RSub(current_price, cost_price), current_price), R(100))
    ELSE Zero

\* current_margin, a percentage (0 when current_price <= 0)
CurrentMargin(current_price, cost_price) ==
    IF RLt(Zero, current_price)
    THEN RMul(RDiv(RSub(current_price, cost_price), current_price), R(100))
    ELSE Zero

\* the filter without the fallback: an empty filtered list is kept
FilterPricesNoFallback(current_price, competitor_prices) ==
    IF competitor_prices # <<>> /\ RLt(Zero, current_price)
    THEN SelectSeq(competitor_prices,
                   LAMBDA p : /\ RLe(RMul(current_price, <<1, 10>>), p)
                              /\ RLe(p, RMul(current_price, R(5))))
    ELSE competitor_prices

\* the secondary filter: samples outside [current x 0.1, current x 5.0] are
\* dropped unless that drops all of them
FilterPrices(current_price, competitor_prices) ==
    LET min_reasonable == RMul(current_price, <<1, 10>>)
        max_reasonable == RMul(current_price, R(5))
        filtered_prices ==
            SelectSeq(competitor_prices,
                      LAMBDA p : RLe(min_reasonable, p) /\ RLe(p, max_reasonable))
    IN  IF competitor_prices # <<>> /\ RLt(Zero, current_price)
           /\ filtered_prices # <<>>
        THEN filtered_prices
        ELSE competitor_prices

\* the average taken over the stored MarketData rows when there are any,
\* whatever the argument: an optimizer that consults the database
AvgCompetitorPriceStored(current_price, prices) ==
    LET stored == [i \in 1..Len(market_data) |-> market_data[i].price] IN
    IF stored # <<>> THEN RDiv(RSum(stored), R(Len(stored)))
    ELSE IF prices # <<>> THEN RDiv(RSum(prices), R(Len(prices)))
    ELSE current_price

\* avg_competitor_price
AvgCompetitorPrice(current_price, prices) ==
    IF prices # <<>> THEN RDiv(RSum(prices), R(Len(prices))) ELSE current_price

\* the decision branch that keeps the current price when samples exist
BaseDecisionCurrent(current_price, prices) ==
    IF prices # <<>> /\ Len(prices) > 0
    THEN [suggested_price  |-> current_price,
          strategy         |-> "Match Market",
          rationale        |-> [base |-> "Price matched to market average",
                                sources |-> Len(prices), note |-> "none"],
          confidence_score |-> 85,
          risk_level       |-> "low",
          market_position  |-> "Competitive"]
    ELSE [suggested_price  |-> current_price,
          strategy         |-> "No Data",
          rationale        |-> [base |-> "No recent market data available",
                                sources |-> 0, note |-> "none"],
          confidence_score |-> 50,
          risk_level       |-> "medium",
          market_position  |-> "Unknown"]

\* the decision branch that takes the sample branch whatever the samples
BaseDecisionConfused(current_price, prices) ==
    [suggested_price  |-> AvgCompetitorPrice(current_price, prices),
     strategy         |-> "Match Market",
     rationale        |-> [base |-> "Price matched to market average",
                           sources |-> Len(prices), note |-> "none"],
     confidence_score |-> 85,
     risk_level       |-> "medium",
     market_position  |-> "Competitive"]

\* the decision branch: the price, labels and scores before the floor step
BaseDecision(current_price, prices) ==
    IF prices # <<>> /\ Len(prices) > 0
    THEN [suggested_price  |-> AvgCompetitorPrice(current_price, prices),
          strategy         |-> "Match Market",
          rationale        |-> [base |-> "Price matched to market average",
                                sources |-> Len(prices), note |-> "none"],
          confidence_score |-> 85,
          risk_level       |-> "low",
          market_position  |-> "Competitive"]
    ELSE [suggested_price  |-> current_price,
          strategy         |-> "No Data",
          rationale        |-> [base |-> "No recent market data available",
                                sources |-> 0, note |-> "none"],
          confidence_score |-> 50,
          risk_level       |-> "medium",
          market_position  |-> "Unknown"]

\* the floor step with the clamp left out
MarginFloorNoClamp(cost_price, d) ==
    LET min_price == RMul(cost_price, <<12, 10>>) IN
    IF RLt(d.suggested_price, min_price)
    THEN IF RLe(RMul(cost_price, <<11, 10>>), d.suggested_price)
         THEN [d EXCEPT !.rationale.note = "adjusted", !.risk_level = "medium"]
         ELSE [d EXCEPT !.rationale.note = "warning", !.risk_level = "high"]
    ELSE d

\* the floor step that raises every price below the floor to the floor
MarginFloorAlwaysClamp(cost_price, d) ==
    IF RLt(d.suggested_price, RMul(cost_price, <<12, 10>>))
    THEN [d EXCEPT !.suggested_price = RMul(cost_price, <<12, 10>>),
                   !.rationale.note = "adjusted",
                   !.risk_level = "medium"]
    ELSE d

\* minimum margin protection: min_price = cost x 1.2
MarginFloor(cost_price, d) ==
    LET min_price == RMul(cost_price, <<12, 10>>) IN
    IF RLt(d.suggested_price, min_price)
    THEN IF RLe(RMul(cost_price, <<11, 10>>), d.suggested_price)
         THEN [d EXCEPT !.suggested_price = min_price,
                        !.rationale.note = "adjusted",
                        !.risk_level = "medium"]
         ELSE [d EXCEPT !.rationale.note = "warning",
                        !.risk_level = "high"]
    ELSE d

\* price_diff_percent, computed for display and not returned
PriceDiffPercent(current_price, avg_competitor_price) ==
    IF RLt(Zero, current_price)
    THEN RMul(RDiv(RSub(avg_competitor_price, current_price), current_price), R(100))
    ELSE Zero

\* predicted_margin, a percentage (0 when suggested_price <= 0)
PredictedMargin(suggested_price, cost_price) ==
    IF RLt(Zero, suggested_price)
    THEN RMul(RDiv(RSub(suggested_price, cost_price), suggested_price), R(100))
    ELSE Zero

ImplementationTiming(risk_level, price_change, current_price, current_margin) ==
    IF risk_level = "high" \/ RLt(RMul(current_price, <<1, 10>>), RAbs(price_change))
    THEN "Phased - Monitor closely"
    ELSE IF RLt(Zero, price_change) /\ RLt(current_margin, R(30))
         THEN "Immediate - High opportunity"
         ELSE "Immediate"

\* optimize_price(product, competitor_prices, market_data); market_data is
\* never read by the function
optimize_price(product, competitor_prices) ==
    LET current_price  == product.current_price
        cost_price     == product.cost_price
        current_margin == CurrentMargin(current_price, cost_price)
        prices         == FilterPrices(current_price, competitor_prices)
        min_competitor_price ==
            IF prices # <<>> THEN RMin(prices) ELSE RMul(current_price, <<9, 10>>)
        max_competitor_price ==
            IF prices # <<>> THEN RMax(prices) ELSE RMul(current_price, <<115, 100>>)
        d              == MarginFloor(cost_price, BaseDecision(current_price, prices))
        suggested_price == d.suggested_price
        predicted_margin == PredictedMargin(suggested_price, cost_price)
        price_change   == RSub(suggested_price, current_price)
        revenue_impact == RMul(RMul(R(product.sales_velocity), price_change), R(4))
    IN  [suggestedPrice       |-> Round2(suggested_price),
         predictedMargin      |-> Round1(predicted_margin),
         confidenceScore      |-> d.confidence_score,
         rationale            |-> d.rationale,
         riskLevel            |-> d.risk_level,
         strategy             |-> d.strategy,
         marketPosition       |-> d.market_position,
         implementationTiming |->
             ImplementationTiming(d.risk_level, price_change, current_price,
                                  current_margin),
         revenueImpact        |-> Round0(revenue_impact),
         competitorMinPrice   |-> Round2(min_competitor_price),
         competitorMaxPrice   |-> Round2(max_competitor_price)]

\* optimize_price raises ZeroDivisionError: one of its quotients has a zero
\* divisor.  The function catches nothing.
optimize_price_raises(product, competitor_prices) ==
    LET current_price == product.current_price
        cost_price    == product.cost_price
        prices        == FilterPrices(current_price, competitor_prices)
        avg_competitor_price == AvgCompetitorPrice(current_price, prices)
        d             == MarginFloor(cost_price, BaseDecision(current_price, prices))
    IN  DivZero \in { CurrentMargin(current_price, cost_price),
                      avg_competitor_price,
                      PriceDiffPercent(current_price, avg_competitor_price),
                      PredictedMargin(d.suggested_price, cost_price) }

-----------------------------------------------------------------------------
(* PriceOptimizer._estimate_elasticity                                     *)

luxury_categories == {"Shapewear", "Loungewear"}

\* the margin adjustment with the sign of the low-margin step flipped
MarginAdjustmentFlipped(current_margin) ==
    IF RLt(R(50), current_margin) THEN <<-1, 2>>
    ELSE IF RLt(current_margin, R(30)) THEN <<-3, 10>>
    ELSE Zero

MarginAdjustment(current_margin) ==
    IF RLt(R(50), current_margin) THEN <<-1, 2>>
    ELSE IF RLt(current_margin, R(30)) THEN <<3, 10>>
    ELSE Zero

_estimate_elasticity(category, sales_velocity, current_margin) ==
    LET base == <<3, 2>>
        e1 == IF category \in luxury_categories THEN RSub(base, <<3, 10>>) ELSE base
        e2 == RAdd(e1, MarginAdjustment(current_margin))
        e3 == IF sales_velocity > 50 THEN RAdd(e2, <<1, 5>>) ELSE e2
        lo == IF RLe(e3, R(3)) THEN e3 ELSE R(3)
    IN  IF RLe(<<1, 2>>, lo) THEN lo ELSE <<1, 2>>


-----------------------------------------------------------------------------
(* PriceOptimizer.calculate_elasticity_curve and the elasticity endpoint   *)
(* (get_elasticity_curve in blueprints/recommendations.py)                 *)

RECURSIVE IntPow(_, _)
IntPow(q, n) == IF n = 0 THEN R(1) ELSE RMul(q, IntPow(q, n - 1))

\* the powers that are rational numbers: of 0 and of 1 to any positive
\* exponent, and of any ratio to a whole exponent
ExactPower(q, e) == q = Zero \/ q = R(1) \/ e[2] = 1

\* q ** e for q >= 0 and e > 0.  A power that is not a rational number has
\* no value here; the product contexts of the model are those in which every
\* power taken is exact.
Pow(q, e) ==
    IF q[2] = 0 \/ e[2] = 0 THEN DivZero
    ELSE IF q = Zero THEN Zero
    ELSE IF q = R(1) THEN R(1)
    ELSE IF e[2] = 1 THEN IntPow(q, e[1])
    ELSE <<>>

num_points == 20

\* price_ratio = current_price / price if price > 0 else 1
PriceRatio(current_price, price) ==
    IF RLt(Zero, price) THEN RDiv(current_price, price) ELSE R(1)

\* demand = base_demand * price_ratio ** elasticity, kept in [0, 3 x base]
DemandAt(base_demand, current_price, price, elasticity) ==
    LET Clamp(demand, cap) ==
            IF RLt(cap, demand) THEN (IF RLt(cap, Zero) THEN Zero ELSE cap)
            ELSE IF RLt(demand, Zero) THEN Zero ELSE demand
    IN  Clamp(RMul(base_demand, Pow(PriceRatio(current_price, price), elasticity)),
              RMul(base_demand, R(3)))

\* the price range of the curve
CurveMinPrice(cost_price, current_price) ==
    LET Max(a, b) == IF RLt(a, b) THEN b ELSE a
    IN  Max(RMul(cost_price, <<8, 10>>), RMul(current_price, <<5, 10>>))

CurveMaxPrice(current_price) ==
    LET Min(a, b) == IF RLt(b, a) THEN b ELSE a
    IN  Min(RMul(current_price, R(2)), RMul(current_price, <<15, 10>>))

\* the price of point i, for i in range(num_points)
CurvePrice(cost_price, current_price, i) ==
    LET Step(min_price, max_price) ==
            RAdd(min_price,
                 RMul(RSub(max_price, min_price), Rat(i, num_points - 1)))
    IN  Step(CurveMinPrice(cost_price, current_price),
             CurveMaxPrice(current_price))

\* calculate_elasticity_curve(product, current_price, suggested_price,
\* base_demand); suggested_price is never read by the function
calculate_elasticity_curve(product, current_price, base_demand) ==
    LET Point(price, elasticity) ==
            [price  |-> Round2(price),
             demand |-> Round1(DemandAt(base_demand, current_price, price,
                                        elasticity))]
        Points(elasticity) ==
            [k \in 1..num_points |->
                Point(CurvePrice(product.cost_price, current_price, k - 1),
                      elasticity)]
    IN  Points(_estimate_elasticity(
                   product.category, product.sales_velocity,
                   CurrentMargin(current_price, product.cost_price)))

\* base_demand = product.sales_velocity if product.sales_velocity > 0 else 100.0
BaseDemand(sales_velocity) ==
    IF sales_velocity > 0 THEN R(sales_velocity) ELSE R(100)

\* a / b * 100 if b > 0 else 0
PercentOf(a, b) == IF RLt(Zero, b) THEN RMul(RDiv(a, b), R(100)) ELSE Zero

\* revenue, profit and margin of a curve point
PointMetrics(point, cost_price) ==
    [price        |-> point.price,
     demand       |-> point.demand,
     revenue      |-> Round2(RMul(point.demand, point.price)),
     profit       |-> Round2(RMul(point.demand, RSub(point.price, cost_price))),
     profitMargin |-> Round1(PercentOf(RSub(point.price, cost_price), point.price))]

\* max(curve_with_metrics, key=lambda x: x['profit']): the first of the
\* points with the highest profit
DiscreteMax(curve) ==
    LET best == CHOOSE k \in 1..Len(curve) :
                   /\ \A j \in 1..Len(curve) : RLe(curve[j].profit, curve[k].profit)
                   /\ \A j \in 1..(k-1) : curve[j].profit # curve[k].profit
    IN  curve[best]

\* lines 348-360: the optimum of the closed form, within its bounds
ClosedForm(product, elasticity, base_demand) ==
    LET cost_price == product.cost_price
        Profit(optimal_price_calc, optimal_demand_calc) ==
            [price  |-> optimal_price_calc,
             demand |-> optimal_demand_calc,
             profit |-> RMul(optimal_demand_calc,
                             RSub(optimal_price_calc, cost_price))]
        AtPrice(optimal_price_calc) ==
            Profit(optimal_price_calc,
                   DemandAt(base_demand, product.current_price,
                            optimal_price_calc, elasticity))
        Within(calc, low, high) ==
            IF RLt(calc, low) THEN (IF RLt(high, low) THEN high ELSE low)
            ELSE IF RLt(high, calc) THEN high ELSE calc
    IN  AtPrice(Within(RDiv(RMul(cost_price, elasticity), RSub(elasticity, R(1))),
                       RMul(cost_price, <<11, 10>>),
                       RMul(product.current_price, R(2))))

\* the closed form reported wherever the elasticity is above 1
OptimalAlwaysClosed(product, elasticity, base_demand, curve) ==
    LET Report(discrete_max, closed) ==
            IF RLt(R(1), elasticity) /\ RLt(Zero, product.cost_price)
            THEN [price |-> Round2(closed.price), demand |-> Round1(closed.demand),
                  profit |-> Round2(closed.profit), branch |-> "closed form"]
            ELSE [price |-> discrete_max.price, demand |-> discrete_max.demand,
                  profit |-> discrete_max.profit, branch |-> "discrete maximum"]
    IN  Report(DiscreteMax(curve), ClosedForm(product, elasticity, base_demand))

\* lines 344-386: the optimal price, demand and profit that are reported
Optimal(product, elasticity, base_demand, curve) ==
    LET Fallback(discrete_max, branch) ==
            [price |-> discrete_max.price, demand |-> discrete_max.demand,
             profit |-> discrete_max.profit, branch |-> branch]
        Report(discrete_max, closed) ==
            IF RLt(R(1), elasticity) /\ RLt(Zero, product.cost_price)
            THEN IF DivZero \in {closed.price, closed.demand, closed.profit}
                 THEN Fallback(discrete_max, "discrete maximum after an error")
                 ELSE IF RLe(discrete_max.profit, closed.profit)
                 THEN [price |-> Round2(closed.price),
                       demand |-> Round1(closed.demand),
                       profit |-> Round2(closed.profit), branch |-> "closed form"]
                 ELSE Fallback(discrete_max, "discrete maximum")
            ELSE Fallback(discrete_max, "discrete maximum")
    IN  Report(DiscreteMax(curve), ClosedForm(product, elasticity, base_demand))

\* the body of the 200 response of get_elasticity_curve, for the product and
\* the suggested price of the recommendation
elasticity_response(product, suggested_price) ==
    LET cost_price     == product.cost_price
        current_price  == product.current_price
        base_demand    == BaseDemand(product.sales_velocity)
        current_demand == BaseDemand(product.sales_velocity)
        Body(elasticity, curve_with_metrics, suggested_demand,
             current_revenue, suggested_revenue,
             current_profit, suggested_profit, optimal) ==
            [curve                |-> curve_with_metrics,
             currentPrice         |-> current_price,
             suggestedPrice       |-> suggested_price,
             currentDemand        |-> Round1(current_demand),
             suggestedDemand      |-> Round1(suggested_demand),
             demandChange         |-> Round1(RSub(suggested_demand, current_demand)),
             demandChangePercent  |->
                 Round1(PercentOf(RSub(suggested_demand, current_demand),
                                  current_demand)),
             baseDemand           |-> base_demand,
             costPrice            |-> cost_price,
             currentRevenue       |-> Round2(current_revenue),
             suggestedRevenue     |-> Round2(suggested_revenue),
             revenueChange        |-> Round2(RSub(suggested_revenue, current_revenue)),
             revenueChangePercent |->
                 Round1(PercentOf(RSub(suggested_revenue, current_revenue),
                                  current_revenue)),
             currentProfit        |-> Round2(current_profit),
             suggestedProfit      |-> Round2(suggested_profit),
             profitChange         |-> Round2(RSub(suggested_profit, current_profit)),
             profitChangePercent  |->
                 Round1(PercentOf(RSub(suggested_profit, current_profit),
                                  current_profit)),
             optimalPrice         |-> optimal.price,
             optimalProfit        |-> optimal.profit,
             optimalDemand        |-> optimal.demand,
             elasticity           |-> elasticity,
             optimalBranch        |-> optimal.branch]
        Metrics(elasticity, curve_with_metrics, suggested_demand) ==
            Body(elasticity, curve_with_metrics, suggested_demand,
                 RMul(current_demand, current_price),
                 RMul(suggested_demand, suggested_price),
                 RMul(current_demand, RSub(current_price, cost_price)),
                 RMul(suggested_demand, RSub(suggested_price, cost_price)),
                 Optimal(product, elasticity, base_demand, curve_with_metrics))
        WithCurve(elasticity, curve_data) ==
            Metrics(elasticity,
                    [k \in 1..Len(curve_data) |->
                        PointMetrics(curve_data[k], cost_price)],
                    DemandAt(base_demand, current_price, suggested_price,
                             elasticity))
    IN  WithCurve(_estimate_elasticity(
                      product.category, product.sales_velocity,
                      CurrentMargin(current_price, cost_price)),
                  calculate_elasticity_curve(product, current_price, base_demand))

\* the numbers of a response
ResponseNumbers(body) ==
    { body.currentDemand, body.suggestedDemand, body.demandChange,
      body.demandChangePercent, body.currentRevenue, body.suggestedRevenue,
      body.revenueChange, body.revenueChangePercent, body.currentProfit,
      body.suggestedProfit, body.profitChange, body.profitChangePercent,
      body.optimalPrice, body.optimalProfit, body.optimalDemand }
    \cup UNION { { body.curve[k].price, body.curve[k].demand, body.curve[k].revenue,
                   body.curve[k].profit, body.curve[k].profitMargin } :
                 k \in 1..Len(body.curve) }

\* a ZeroDivisionError outside the inner try block reaches the handler's
\* `except Exception`, which answers 500
elasticity_raises(product, suggested_price) ==
    \/ CurrentMargin(product.current_price, product.cost_price) = DivZero
    \/ DivZero \in ResponseNumbers(elasticity_response(product, suggested_price))

-----------------------------------------------------------------------------
(* _validate_scraped_price (blueprints/products.py)                        *)

major_retailers == {"amazon", "walmart", "target", "bestbuy", "homedepot", "wayfair"}

\* source.lower(), on the spellings of the retailers' names the model uses;
\* a name without capital letters is left as it is
Lower(source) ==
    CASE source \in {"Amazon", "AMAZON"} -> "amazon"
      [] source = "WalMart" -> "walmart"
      [] source = "BestBuy" -> "bestbuy"
      [] source = "WAYFAIR" -> "wayfair"
      [] source = "eBay" -> "ebay"
      [] OTHER -> source

IsMajorRetailerCaseSensitive(source) ==
    source # "" /\ source \in major_retailers

\* is_major_retailer; None and '' are falsy, and both are written ""
IsMajorRetailer(source) ==
    source # "" /\ Lower(source) \in major_retailers

MinCostRatioSwapped(is_major_retailer) ==
    IF is_major_retailer THEN <<5, 10>> ELSE <<4, 10>>

MinCostRatio(is_major_retailer) ==
    IF is_major_retailer THEN <<4, 10>> ELSE <<5, 10>>

_validate_scraped_price(price, cost_price, current_price, source) ==
    LET is_major_retailer == IsMajorRetailer(source)
        min_cost_ratio == MinCostRatio(is_major_retailer)
        max_cost_ratio == IF is_major_retailer THEN R(15) ELSE R(10)
        min_reasonable == IF is_major_retailer THEN RMul(current_price, <<5, 100>>)
                          ELSE RMul(current_price, <<1, 10>>)
        max_reasonable == IF is_major_retailer THEN RMul(current_price, R(6))
                          ELSE RMul(current_price, R(5))
    IN  /\ ~(RLt(price, R(1)) \/ RLt(R(100000000), price))
        /\ RLt(Zero, cost_price) =>
              /\ ~RLt(price, RMul(cost_price, min_cost_ratio))
              /\ ~(RLt(RMul(cost_price, max_cost_ratio), price)
                   /\ RLt(R(10000), cost_price))
        /\ RLt(Zero, current_price) =>
              ~(RLt(price, min_reasonable) \/ RLt(max_reasonable, price))

-----------------------------------------------------------------------------
(* The stored state and the requests                                       *)

\* None, and the empty request field
Null == <<>>

\* Python truthiness of an optional float: None and 0.0 are false
Truthy(q) == q # Null /\ q[1] # 0

Users == {"u1", "u2"}

ProductIds == {"p1", "p2"}

\* timedelta(hours=24) of datetime.utcnow() - timedelta(hours=24), in minutes
FreshWindow == 1440

\* the clock moves in steps of 25 hours: a row is stale one step after it
\* was scraped
ClockSteps == {1500}

MaxTime == 1500

MaxRecs == 2

MaxMarketData == 1

MaxScrape == 1

\* what scrape_all_sources may return, from a scrape made now or from its
\* one-hour cache of an earlier one: ScrapedPrice(price, source, url)
ScrapeItems ==
    { [price |-> R(9000), source |-> "amazon"],
      [price |-> R(1000), source |-> "ebay"] }

\* scrape_google_shopping returns a list without duplicates
ScrapeResults ==
    { s \in UNION { [1..n -> ScrapeItems] : n \in 0..MaxScrape } :
        \A i, j \in 1..Len(s) : i # j => s[i] # s[j] }

StatusValues == {"pending", "applied", "rejected", "archived"}

\* the JSON bodies of PATCH /recommendations/<id>: status absent ("") or any
\* string, applyPrice absent or true
PatchBodies == [status : StatusValues \cup {""}, applyPrice : BOOLEAN]

\* the JSON bodies of PATCH /products/<id>, one field at a time
ProductUpdates ==
    { [field |-> "currentPrice", value |-> R(12000)] }

\* the request handlers that may run at the same time
Slots == {1, 2}

Idle == [pc |-> "idle"]

NoCall == [fn |-> "none", done |-> FALSE]

\* one product, in a store of user u1; no product has the id p2
InitProducts ==
    [p \in {"p1"} |->
        [owner |-> "u1", category |-> "Other", cost_price |-> R(5000),
         current_price |-> R(10000), competitor_price |-> Null,
         sales_velocity |-> 10]]

Init ==
    /\ products = InitProducts
    /\ recommendations = <<>>
    /\ market_data = <<>>
    /\ now = 0
    /\ last = [op |-> "none", code |-> 0, rec_id |-> 0, scraped |-> FALSE]
    /\ reqs = [i \in Slots |-> Idle]
    /\ ids = [rec |-> 0, md |-> 0]
    /\ call = NoCall

-----------------------------------------------------------------------------
(* Queries                                                                 *)

\* the query without the filter on the user of the store
OwnedProductAnyUser(user, product_id) == product_id \in DOMAIN products

\* Product.query.join(Store).filter(Product.id == id, Store.user_id == user)
OwnedProduct(user, product_id) ==
    product_id \in DOMAIN products /\ products[product_id].owner = user

\* MarketData rows of the product with scraped_at >= now - 24 hours
RecentMarketData(product_id) ==
    SelectSeq(market_data,
              LAMBDA md : md.product_id = product_id
                          /\ md.scraped_at >= now - FreshWindow)

\* ids of the rows of Recommendation.query.filter_by(product_id, status='pending')
PendingIds(product_id) ==
    { recommendations[i].id : i \in
        { j \in 1..Len(recommendations) :
            /\ recommendations[j].product_id = product_id
            /\ recommendations[j].status = "pending" } }

IdsOf(rows) == { rows[i].id : i \in 1..Len(rows) }

RecIds == IdsOf(recommendations)

\* the row with the given id among the rows given
RecIn(rows, id) == rows[CHOOSE i \in 1..Len(rows) : rows[i].id = id]

RecById(id) == RecIn(recommendations, id)

\* Recommendation.query.join(Product).join(Store).filter(id, user)
OwnedRecommendation(user, id) ==
    /\ id \in RecIds
    /\ OwnedProduct(user, RecById(id).product_id)

PricesOf(rows) == [i \in 1..Len(rows) |-> rows[i].price]

-----------------------------------------------------------------------------
(* POST /recommendations: create_recommendation                            *)

\* the inline validation of scraped prices in create_recommendation
CreateValid(product, price) ==
    /\ ~(RLt(Zero, product.cost_price)
         /\ RLt(price, RMul(product.cost_price, <<1, 2>>)))
    /\ RLt(Zero, product.current_price) =>
          ~(\/ RLt(price, RMul(product.current_price, <<1, 10>>))
            \/ RLt(RMul(product.current_price, R(5)), price))

\* new MarketData rows for the scraped prices kept
NewMarketData(product_id, kept, first_id) ==
    [i \in 1..Len(kept) |->
        [id |-> first_id + i, product_id |-> product_id,
         source |-> kept[i].source, price |-> kept[i].price,
         scraped_at |-> now]]

\* what the handler read before it decided: the product row, the recent
\* samples and the pending record (0 when there is none) with the outputs it
\* had when it was loaded; first() without an order may return any pending
\* record
CreateSnapshots(user, product_id) ==
    { [user |-> user, product_id |-> product_id,
       product |-> products[product_id],
       recent |-> PricesOf(RecentMarketData(product_id)),
       existing_rec |-> e,
       seen |-> IF e = 0 THEN Null ELSE RecById(e).fields] :
      e \in IF PendingIds(product_id) = {} THEN {0} ELSE PendingIds(product_id) }

\* the prices on hand before any scraping
PricesOnHand(snap) ==
    IF snap.recent # <<>> THEN snap.recent
    ELSE IF Truthy(snap.product.competitor_price)
         THEN <<snap.product.competitor_price>>
         ELSE <<>>

\* the early return of line 110 taken whenever nothing is on hand
ReturnsExistingNothingOnHand(snap) ==
    snap.existing_rec # 0 /\ PricesOnHand(snap) = <<>>

\* a pending record exists and there is no fresh market data: the handler
\* returns the record as it is
ReturnsExisting(snap) == snap.existing_rec # 0 /\ snap.recent = <<>>

\* the overwrite with only the price assigned
RefreshRecPriceOnly(rec, optimization) ==
    [rec EXCEPT !.fields.suggestedPrice = optimization.suggestedPrice]

\* the existing record overwritten in place
RefreshRec(rec, optimization) == [rec EXCEPT !.fields = optimization]

\* the record inserted by a create
NewRec(id, product_id, optimization) ==
    [id |-> id, product_id |-> product_id, status |-> "pending",
     fields |-> optimization]

\* the insert decided by a second query for pending records at write time
InsertsNewRechecked(snap) == PendingIds(snap.product_id) = {}

\* `if existing_rec:` at line 182, on the record read at line 95: the handler
\* inserts when it had found no pending record
InsertsNew(snap) == snap.existing_rec = 0

\* the rest of the handler from line 112 on: scrape if there is nothing on
\* hand, optimize, update or insert, commit
CreateWrite(snap, found) ==
    LET onhand   == PricesOnHand(snap)
        scrapes  == onhand = <<>>
        scraped_prices == IF scrapes THEN found ELSE <<>>
        validated_prices ==
            SelectSeq(scraped_prices, LAMBDA pd : CreateValid(snap.product, pd.price))
        competitor_prices ==
            IF scrapes THEN PricesOf(validated_prices) ELSE onhand
        optimization == optimize_price(snap.product, competitor_prices)
        rows     == NewMarketData(snap.product_id, validated_prices, ids.md)
        rec_id   == ids.rec + 1
    IN  /\ scrapes \/ found = <<>>
        /\ Len(market_data) + Len(rows) <= MaxMarketData
        /\ InsertsNew(snap) => Len(recommendations) < MaxRecs
        /\ market_data' = market_data \o rows
        /\ recommendations' =
              IF ~InsertsNew(snap)
              THEN [i \in 1..Len(recommendations) |->
                      IF recommendations[i].id = snap.existing_rec
                      THEN RefreshRec(recommendations[i], optimization)
                      ELSE recommendations[i]]
              ELSE Append(recommendations,
                          NewRec(rec_id, snap.product_id, optimization))
        /\ ids' = [rec |-> IF ~InsertsNew(snap) THEN ids.rec ELSE rec_id,
                   md  |-> ids.md + Len(rows)]
        /\ last' = [op |-> "create_recommendation",
                    code |-> IF ~InsertsNew(snap) THEN 200 ELSE 201,
                    rec_id |-> IF ~InsertsNew(snap) THEN snap.existing_rec
                               ELSE rec_id,
                    scraped |-> scrapes]
        /\ UNCHANGED <<products, now>>

\* the answers that end the handler before it writes
CreateEarly(code, rec_id) ==
    /\ last' = [op |-> "create_recommendation", code |-> code,
                rec_id |-> rec_id, scraped |-> FALSE]
    /\ UNCHANGED <<products, recommendations, market_data, now, ids>>

\* the handler run from request to response with no other request in between
create_recommendation(user, product_id) ==
    /\ UNCHANGED <<reqs, call>>
    /\ IF product_id = "" THEN CreateEarly(400, 0)
       ELSE IF ~OwnedProduct(user, product_id)
       THEN CreateEarly(404, 0)
       ELSE \E snap \in CreateSnapshots(user, product_id) :
              IF ReturnsExisting(snap)
              THEN CreateEarly(200, snap.existing_rec)
              ELSE \E found \in ScrapeResults : CreateWrite(snap, found)

-----------------------------------------------------------------------------
(* PATCH /recommendations/<id>: update_recommendation                      *)

\* the status written by the handler: data['status'] when the key is there
PatchedStatus(rec, data) == IF data.status # "" THEN data.status ELSE rec.status

\* the copy made for every applied status, with or without applyPrice
AppliesPriceAlways(data) == data.status = "applied"

\* the copy made whenever applyPrice is set, whatever the status
AppliesPriceAnyStatus(data) == data.applyPrice

\* whether the handler copies the suggested price to the product
AppliesPrice(data) == data.status = "applied" /\ data.applyPrice

update_recommendation(user, recommendation_id, data) ==
    /\ UNCHANGED <<market_data, now, reqs, ids, call>>
    /\ IF ~OwnedRecommendation(user, recommendation_id)
       THEN /\ last' = [op |-> "update_recommendation", code |-> 404,
                        rec_id |-> 0, scraped |-> FALSE]
            /\ UNCHANGED <<products, recommendations>>
       ELSE LET rec == RecById(recommendation_id) IN
            /\ products' =
                  IF AppliesPrice(data)
                  THEN [products EXCEPT ![rec.product_id].current_price =
                                            rec.fields.suggestedPrice]
                  ELSE products
            /\ recommendations' =
                  [i \in 1..Len(recommendations) |->
                      IF recommendations[i].id = recommendation_id
                      THEN [recommendations[i] EXCEPT
                               !.status = PatchedStatus(recommendations[i], data)]
                      ELSE recommendations[i]]
            /\ last' = [op |-> "update_recommendation", code |-> 200,
                        rec_id |-> recommendation_id, scraped |-> FALSE]

-----------------------------------------------------------------------------
(* PATCH /products/<id>: update_product                                    *)

\* float(data['competitorPrice']) if data['competitorPrice'] else None
UpdatedProduct(product, upd) ==
    IF upd.field = "costPrice" THEN [product EXCEPT !.cost_price = upd.value]
    ELSE IF upd.field = "currentPrice" THEN [product EXCEPT !.current_price = upd.value]
    ELSE [product EXCEPT !.competitor_price =
                            IF upd.value[1] # 0 THEN upd.value ELSE Null]

update_product(user, product_id, upd) ==
    /\ UNCHANGED <<recommendations, market_data, now, reqs, ids, call>>
    /\ IF ~OwnedProduct(user, product_id)
       THEN /\ last' = [op |-> "update_product", code |-> 404,
                        rec_id |-> 0, scraped |-> FALSE]
            /\ UNCHANGED products
       ELSE /\ products' = [products EXCEPT
                              ![product_id] = UpdatedProduct(products[product_id], upd)]
            /\ last' = [op |-> "update_product", code |-> 200,
                        rec_id |-> 0, scraped |-> FALSE]

-----------------------------------------------------------------------------
(* POST /products/<id>/scan: scan_prices                                   *)

\* the final validation of the average: None when it is rejected
FinalAverage(product, avg_price) ==
    LET after_cost ==
            IF avg_price[1] # 0 /\ RLt(Zero, product.cost_price)
            THEN IF RLt(avg_price, RMul(product.cost_price, <<1, 2>>)) THEN Null
                 ELSE IF RLt(RMul(product.cost_price, R(10)), avg_price)
                         /\ RLt(R(10000), product.cost_price)
                      THEN Null
                      ELSE avg_price
            ELSE avg_price
    IN  IF avg_price[1] # 0 /\ RLt(Zero, product.current_price)
           /\ after_cost # Null
           /\ (\/ RLt(after_cost, RMul(product.current_price, <<1, 10>>))
               \/ RLt(RMul(product.current_price, R(5)), after_cost))
        THEN Null
        ELSE after_cost

\* the handler, in a table that holds at most max_rows rows
scan_prices_within(user, product_id, found, max_rows) ==
    /\ UNCHANGED <<recommendations, now, reqs, call>>
    /\ IF ~OwnedProduct(user, product_id)
       THEN /\ found = <<>>
            /\ last' = [op |-> "scan_prices", code |-> 404, rec_id |-> 0,
                        scraped |-> FALSE]
            /\ UNCHANGED <<products, market_data, ids>>
       ELSE LET product == products[product_id]
                scraped_prices == found
                validated_prices ==
                    SelectSeq(scraped_prices,
                              LAMBDA pd : _validate_scraped_price(
                                  pd.price, product.cost_price,
                                  product.current_price, pd.source))
                rows == NewMarketData(product_id, validated_prices, ids.md)
                avg_price ==
                    IF validated_prices = <<>> THEN Null
                    ELSE FinalAverage(product,
                             RDiv(RSum(PricesOf(validated_prices)),
                                  R(Len(validated_prices))))
            IN  IF scraped_prices = <<>> \/ validated_prices = <<>>
                THEN /\ last' = [op |-> "scan_prices",
                                 code |-> IF scraped_prices = <<>> THEN 404 ELSE 400,
                                 rec_id |-> 0, scraped |-> TRUE]
                     /\ UNCHANGED <<products, market_data, ids>>
                ELSE /\ Len(market_data) + Len(rows) <= max_rows
                     /\ market_data' = market_data \o rows
                     /\ ids' = [ids EXCEPT !.md = ids.md + Len(rows)]
                     /\ products' =
                           IF Truthy(avg_price)
                           THEN [products EXCEPT
                                   ![product_id].competitor_price = avg_price]
                           ELSE products
                     /\ last' = [op |-> "scan_prices",
                                 code |-> IF Truthy(avg_price) THEN 200 ELSE 400,
                                 rec_id |-> 0, scraped |-> TRUE]

scan_prices(user, product_id, found) ==
    scan_prices_within(user, product_id, found, MaxMarketData)

-----------------------------------------------------------------------------
(* The clock                                                               *)

AdvanceClock(d) ==
    /\ now + d <= MaxTime
    /\ now' = now + d
    /\ UNCHANGED <<products, recommendations, market_data, last, reqs, ids, call>>

-----------------------------------------------------------------------------
(* Requests handled one at a time                                          *)

Next ==
    \/ \E u \in Users, p \in ProductIds \cup {""} : create_recommendation(u, p)
    \/ \E u \in Users, r \in 1..(ids.rec + 1), data \in PatchBodies :
          update_recommendation(u, r, data)
    \/ \E u \in Users, p \in ProductIds, upd \in ProductUpdates :
          update_product(u, p, upd)
    \/ \E u \in Users, p \in ProductIds, found \in ScrapeResults :
          scan_prices(u, p, found)
    \/ \E d \in ClockSteps : AdvanceClock(d)

Spec == Init /\ [][Next]_vars

-----------------------------------------------------------------------------
(* Requests handled at the same time: create_recommendation reads, and     *)
(* writes later, while other requests commit in between.  Each handler has *)
(* its own database session, so what it read stays as it was read.         *)

\* PATCH bodies that follow the lifecycle: apply with the price, reject
ConcPatchBodies ==
    { [status |-> "applied", applyPrice |-> TRUE],
      [status |-> "rejected", applyPrice |-> FALSE] }

\* lines 70-110: the handler answers at once or has read what it needs
CreateBegin(i, user, product_id) ==
    /\ reqs[i].pc # "read"
    /\ UNCHANGED call
    /\ IF product_id = "" THEN CreateEarly(400, 0) /\ UNCHANGED reqs
       ELSE IF ~OwnedProduct(user, product_id)
       THEN CreateEarly(404, 0) /\ UNCHANGED reqs
       ELSE \E snap \in CreateSnapshots(user, product_id) :
              IF ReturnsExisting(snap)
              THEN CreateEarly(200, snap.existing_rec) /\ UNCHANGED reqs
              ELSE /\ reqs' = [reqs EXCEPT ![i] = [pc |-> "read", snap |-> snap]]
                   /\ UNCHANGED <<products, recommendations, market_data, now,
                                  last, ids>>

\* lines 112-219: the handler writes and commits; the slot keeps what the
\* handler had read until the next request takes it
CreateFinish(i, found) ==
    /\ reqs[i].pc = "read"
    /\ CreateWrite(reqs[i].snap, found)
    /\ reqs' = [reqs EXCEPT ![i] = [pc |-> "done", snap |-> reqs[i].snap]]
    /\ UNCHANGED call

NextConc ==
    \/ \E i \in Slots, p \in ProductIds : CreateBegin(i, "u1", p)
    \/ \E i \in Slots, found \in ScrapeResults : CreateFinish(i, found)
    \/ \E r \in 1..ids.rec, data \in ConcPatchBodies :
          update_recommendation("u1", r, data)
    \/ \E p \in ProductIds, upd \in ProductUpdates : update_product("u1", p, upd)

SpecConc == Init /\ [][NextConc]_vars

\* the outputs a handler computes from what it read, when it does not scrape
OutputsOf(snap) == optimize_price(snap.product, PricesOnHand(snap))

C6_WitnessLost ==
    \E i, j \in Slots :
       /\ reqs[i].pc = "done" /\ reqs[j].pc = "done"
       /\ reqs[i].snap.existing_rec # 0
       /\ reqs[i].snap.existing_rec = reqs[j].snap.existing_rec
       /\ reqs[i].snap.seen = reqs[j].snap.seen
       /\ PricesOnHand(reqs[i].snap) # <<>> /\ PricesOnHand(reqs[j].snap) # <<>>
       /\ reqs[j].snap.product = products[reqs[j].snap.product_id]
       /\ OutputsOf(reqs[i].snap) # OutputsOf(reqs[j].snap)
       /\ OutputsOf(reqs[j].snap) # reqs[j].snap.seen
       /\ RecById(reqs[i].snap.existing_rec).status = "pending"
       /\ RecById(reqs[i].snap.existing_rec).fields = OutputsOf(reqs[i].snap)

-----------------------------------------------------------------------------
(* The recommendation lifecycle, requests handled one at a time            *)

\* C1: every product has at most one recommendation whose status is pending.
C1_OnePending ==
    \A p \in ProductIds : Cardinality(PendingIds(p)) <= 1

\* C2: applied and rejected are terminal: a recommendation that is applied or
\* rejected keeps its status and its optimizer outputs; status is always one
\* of pending, applied, rejected, and changes only from pending to applied or
\* from pending to rejected.
C2_Terminal ==
    [][\A id \in RecIds :
          id \in IdsOf(recommendations') =>
             LET before == RecById(id)
                 after  == RecIn(recommendations', id)
             IN  /\ after.status \in {"pending", "applied", "rejected"}
                 /\ before.status \in {"applied", "rejected"} => after = before
                 /\ after.status # before.status =>
                       /\ before.status = "pending"
                       /\ after.status \in {"applied", "rejected"}]_vars

C4_RefreshInPlace ==
    [][\A u \in Users, p \in ProductIds :
          (/\ OwnedProduct(u, p)
           /\ PendingIds(p) # {}
           /\ RecentMarketData(p) # <<>>
           /\ last'.op = "create_recommendation"
           /\ create_recommendation(u, p))
          => /\ Len(recommendations') = Len(recommendations)
             /\ last'.code = 200
             /\ last'.rec_id \in PendingIds(p)
             /\ \A i \in 1..Len(recommendations) :
                   recommendations'[i] =
                      IF recommendations[i].id = last'.rec_id
                      THEN [recommendations[i] EXCEPT !.fields =
                              optimize_price(products[p],
                                             PricesOf(RecentMarketData(p)))]
                      ELSE recommendations[i]]_vars

\* a create answered 200 for a pending record while fresh samples exist: the
\* record carries the outputs computed from them
C4_Witness ==
    /\ last.op = "create_recommendation"
    /\ last.code = 200
    /\ RecById(last.rec_id).status = "pending"
    /\ RecentMarketData(RecById(last.rec_id).product_id) # <<>>
    /\ RecById(last.rec_id).fields.strategy = "Match Market"
    /\ RecById(last.rec_id).fields.rationale.sources =
          Len(RecentMarketData(RecById(last.rec_id).product_id))

\* C5: a create request for a product that has a pending recommendation and
\* no market samples of the last 24 hours changes no recommendation, product
\* or market-data row, does not call the scraper, and answers 200 with the
\* pending record.
C5_ReturnUnchanged ==
    [][\A u \in Users, p \in ProductIds :
          (/\ OwnedProduct(u, p)
           /\ PendingIds(p) # {}
           /\ RecentMarketData(p) = <<>>
           /\ last'.op = "create_recommendation"
           /\ create_recommendation(u, p))
          => /\ UNCHANGED <<products, recommendations, market_data, ids>>
             /\ last'.code = 200
             /\ last'.rec_id \in PendingIds(p)
             /\ ~last'.scraped]_vars

\* a create answered 200 with a pending record while no fresh samples exist,
\* although the product has changed since the record was computed
C5_Witness ==
    /\ last.op = "create_recommendation"
    /\ last.code = 200
    /\ ~last.scraped
    /\ RecById(last.rec_id).status = "pending"
    /\ RecentMarketData(RecById(last.rec_id).product_id) = <<>>
    /\ market_data # <<>>
    /\ products[RecById(last.rec_id).product_id].competitor_price # Null
    /\ products[RecById(last.rec_id).product_id].current_price # R(10000)
    /\ RecById(last.rec_id).fields.strategy = "No Data"
    /\ RecById(last.rec_id).fields.suggestedPrice = R(10000)

-----------------------------------------------------------------------------
(* The optimizer on its own: optimize_price applied to a product context   *)
(* and a sample list                                                       *)

MaxSamples == 4

OptCosts == {Zero, R(5000), R(8001), R(10000)}

OptCurrents ==
    {Zero, R(1900), R(10000), R(12000), <<36001, 3>>, R(15000), R(100000)}

OptVelocities == {0, 10}

OptSamplePrices == {R(8000), R(8999), R(9000), R(9500), R(10000), R(10500)}

OptSampleLists == UNION { [1..n -> OptSamplePrices] : n \in 0..MaxSamples }

InitOptimize ==
    /\ products = InitProducts
    /\ recommendations = <<>>
    /\ market_data = <<>>
    /\ now = 0
    /\ last = [op |-> "none", code |-> 0, rec_id |-> 0, scraped |-> FALSE]
    /\ reqs = [i \in Slots |-> Idle]
    /\ ids = [rec |-> 0, md |-> 0]
    /\ call \in { [fn |-> "optimize_price",
                   product |-> [cost_price |-> c, current_price |-> p,
                                sales_velocity |-> v],
                   competitor_prices |-> s,
                   done |-> FALSE, result |-> Null, raised |-> FALSE] :
                  c \in OptCosts, p \in OptCurrents, v \in OptVelocities,
                  s \in OptSampleLists }

CallOptimize ==
    /\ call.fn = "optimize_price"
    /\ ~call.done
    /\ call' = [call EXCEPT !.done = TRUE,
                            !.result = optimize_price(call.product,
                                                      call.competitor_prices),
                            !.raised = optimize_price_raises(call.product,
                                                             call.competitor_prices)]
    /\ UNCHANGED <<products, recommendations, market_data, now, last, reqs, ids>>

SpecOptimize == InitOptimize /\ [][CallOptimize]_vars

\* the call has returned
Optimized == call.fn = "optimize_price" /\ call.done

\* the samples the statistics are computed over
SamplesUsed == FilterPrices(call.product.current_price, call.competitor_prices)

\* the price chosen before the floor step
PriceBeforeFloor ==
    BaseDecision(call.product.current_price, SamplesUsed).suggested_price

\* C7 as stated: if the price chosen before the floor step is at least
\* cost x 1.1, the returned suggestedPrice is at least cost x 1.2 or the
\* returned riskLevel is high.
C7_MarginFloorExact ==
    (Optimized /\ RLe(RMul(call.product.cost_price, <<11, 10>>), PriceBeforeFloor))
    => \/ RLe(RMul(call.product.cost_price, <<12, 10>>), call.result.suggestedPrice)
       \/ call.result.riskLevel = "high"

\* C7 amended: if the price chosen before the floor step is at least
\* cost x 1.1, the returned suggestedPrice is at least cost x 1.2 rounded to
\* 2 decimals, or the returned riskLevel is high.
C7_MarginFloorRounded ==
    (Optimized /\ RLe(RMul(call.product.cost_price, <<11, 10>>), PriceBeforeFloor))
    => \/ RLe(Round2(RMul(call.product.cost_price, <<12, 10>>)),
              call.result.suggestedPrice)
       \/ call.result.riskLevel = "high"

\* a call whose price before the floor lies in [cost x 1.1, cost x 1.2) and
\* was raised to the floor
C7_Witness ==
    /\ Optimized
    /\ RLe(RMul(call.product.cost_price, <<11, 10>>), PriceBeforeFloor)
    /\ RLt(PriceBeforeFloor, RMul(call.product.cost_price, <<12, 10>>))
    /\ RLt(Round2(PriceBeforeFloor), call.result.suggestedPrice)
    /\ call.result.riskLevel = "medium"

\* C8 as stated: with an empty sample list optimize returns strategy
\* "No Data", confidenceScore 50, riskLevel medium, marketPosition "Unknown"
\* and suggestedPrice equal to the current price, for every product context.
C8_NoDataAlways ==
    (Optimized /\ call.competitor_prices = <<>>)
    => /\ call.result.strategy = "No Data"
       /\ call.result.confidenceScore = 50
       /\ call.result.riskLevel = "medium"
       /\ call.result.marketPosition = "Unknown"
       /\ call.result.suggestedPrice = call.product.current_price

\* C8 amended: with an empty sample list optimize returns strategy "No Data",
\* confidenceScore 50 and marketPosition "Unknown" for every product context,
\* and, when the current price is at least cost x 1.2, riskLevel medium and
\* suggestedPrice equal to the current price rounded to 2 decimals.
C8_NoDataFallback ==
    (Optimized /\ call.competitor_prices = <<>>)
    => /\ call.result.strategy = "No Data"
       /\ call.result.confidenceScore = 50
       /\ call.result.marketPosition = "Unknown"
       /\ RLe(RMul(call.product.cost_price, <<12, 10>>), call.product.current_price)
          => /\ call.result.riskLevel = "medium"
             /\ call.result.suggestedPrice = Round2(call.product.current_price)

\* cost 100, current 120, no samples: 120, "No Data", medium, 50
C8_Witness ==
    /\ Optimized
    /\ call.competitor_prices = <<>>
    /\ call.product.cost_price = R(10000)
    /\ call.product.current_price = R(12000)
    /\ call.result.suggestedPrice = R(12000)
    /\ call.result.strategy = "No Data"
    /\ call.result.riskLevel = "medium"
    /\ call.result.confidenceScore = 50

\* C9 as stated: with at least one sample optimize returns strategy
\* "Match Market", confidenceScore 85 and marketPosition "Competitive", and
\* when the average of the samples used is at least cost x 1.2,
\* suggestedPrice equals that average and riskLevel is low.
C9_MatchMarketExact ==
    (Optimized /\ call.competitor_prices # <<>>)
    => /\ call.result.strategy = "Match Market"
       /\ call.result.confidenceScore = 85
       /\ call.result.marketPosition = "Competitive"
       /\ RLe(RMul(call.product.cost_price, <<12, 10>>),
              AvgCompetitorPrice(call.product.current_price, SamplesUsed))
          => /\ call.result.suggestedPrice =
                   AvgCompetitorPrice(call.product.current_price, SamplesUsed)
             /\ call.result.riskLevel = "low"

\* C9 amended: with at least one sample optimize returns strategy
\* "Match Market", confidenceScore 85 and marketPosition "Competitive", and
\* when the average of the samples used is at least cost x 1.2,
\* suggestedPrice equals that average rounded to 2 decimals and riskLevel is
\* low.
C9_MatchMarket ==
    (Optimized /\ call.competitor_prices # <<>>)
    => /\ call.result.strategy = "Match Market"
       /\ call.result.confidenceScore = 85
       /\ call.result.marketPosition = "Competitive"
       /\ RLe(RMul(call.product.cost_price, <<12, 10>>),
              AvgCompetitorPrice(call.product.current_price, SamplesUsed))
          => /\ call.result.suggestedPrice =
                   Round2(AvgCompetitorPrice(call.product.current_price, SamplesUsed))
             /\ call.result.riskLevel = "low"

\* cost 50, current 100, samples 90, 95, 100, 105: 97.5, "Match Market", 85
C9_Witness ==
    /\ Optimized
    /\ call.product.cost_price = R(5000)
    /\ call.product.current_price = R(10000)
    /\ call.competitor_prices = <<R(9000), R(9500), R(10000), R(10500)>>
    /\ call.result.suggestedPrice = R(9750)
    /\ call.result.strategy = "Match Market"
    /\ call.result.confidenceScore = 85
    /\ call.result.riskLevel = "low"

-----------------------------------------------------------------------------
(* The estimator on its own: _estimate_elasticity applied to a category, a *)
(* sales velocity and a current margin                                     *)

EstCategories == {"Other", "Shapewear", "Loungewear"}

EstVelocities == {0, 10, 50, 51, 60}

EstMargins ==
    {R(-20), Zero, R(29), <<299, 10>>, R(30), R(31), R(50), <<501, 10>>,
     R(55), R(100)}

InitEstimate ==
    /\ products = InitProducts
    /\ recommendations = <<>>
    /\ market_data = <<>>
    /\ now = 0
    /\ last = [op |-> "none", code |-> 0, rec_id |-> 0, scraped |-> FALSE]
    /\ reqs = [i \in Slots |-> Idle]
    /\ ids = [rec |-> 0, md |-> 0]
    /\ call \in { [fn |-> "_estimate_elasticity", category |-> c,
                   sales_velocity |-> v, current_margin |-> m,
                   done |-> FALSE, result |-> Null] :
                  c \in EstCategories, v \in EstVelocities, m \in EstMargins }

CallEstimate ==
    /\ call.fn = "_estimate_elasticity"
    /\ ~call.done
    /\ call' = [call EXCEPT !.done = TRUE,
                            !.result = _estimate_elasticity(call.category,
                                                            call.sales_velocity,
                                                            call.current_margin)]
    /\ UNCHANGED <<products, recommendations, market_data, now, last, reqs, ids>>

SpecEstimate == InitEstimate /\ [][CallEstimate]_vars

\* the call has returned
Estimated == call.fn = "_estimate_elasticity" /\ call.done

\* C10: estimate returns 1.5, minus 0.3 for Shapewear or Loungewear, minus
\* 0.5 if margin > 50 or else plus 0.3 if margin < 30, plus 0.2 if velocity
\* > 50, clamped to [0.5, 3.0]; the result lies in [0.5, 3.0].  The sum is
\* taken in tenths.
C10_Elasticity ==
    Estimated
    => LET tenths ==
             15 + (IF call.category \in {"Shapewear", "Loungewear"} THEN -3 ELSE 0)
                + (IF RLt(R(50), call.current_margin) THEN -5
                   ELSE IF RLt(call.current_margin, R(30)) THEN 3 ELSE 0)
                + (IF call.sales_velocity > 50 THEN 2 ELSE 0)
       IN /\ call.result =
                Rat(IF tenths < 5 THEN 5 ELSE IF tenths > 30 THEN 30 ELSE tenths, 10)
          /\ RLe(<<1, 2>>, call.result)
          /\ RLe(call.result, R(3))

\* Loungewear, margin 55, velocity 10 gives 0.7
C10_Witness ==
    /\ Estimated
    /\ call.category = "Loungewear"
    /\ call.current_margin = R(55)
    /\ call.sales_velocity = 10
    /\ call.result = <<7, 10>>

-----------------------------------------------------------------------------
(* optimize_price called twice with the same arguments, while requests     *)
(* change the stored state and the clock moves in between.  The optimizer  *)
(* is a singleton without attributes; optimize_price reads its arguments   *)
(* only.                                                                   *)

\* the arguments of the two calls
RepeatProducts ==
    { [cost_price |-> R(5000), current_price |-> R(10000), sales_velocity |-> 10],
      [cost_price |-> R(8001), current_price |-> R(0), sales_velocity |-> 0] }

RepeatSampleLists == { <<>>, <<R(9000)>>, <<R(9000), R(10000)>> }

InitRepeat ==
    /\ products = InitProducts
    /\ recommendations = <<>>
    /\ market_data = <<>>
    /\ now = 0
    /\ last = [op |-> "none", code |-> 0, rec_id |-> 0, scraped |-> FALSE]
    /\ reqs = [i \in Slots |-> Idle]
    /\ ids = [rec |-> 0, md |-> 0]
    /\ call \in { [fn |-> "optimize_price twice", product |-> p,
                   competitor_prices |-> s, calls |-> 0,
                   first |-> Null, second |-> Null, before |-> Null] :
                  p \in RepeatProducts, s \in RepeatSampleLists }

\* the first call; `before` keeps the stored state and the clock it ran in
RepeatFirst ==
    /\ call.fn = "optimize_price twice"
    /\ call.calls = 0
    /\ call' = [call EXCEPT
                  !.calls = 1,
                  !.first = optimize_price(call.product, call.competitor_prices),
                  !.before = [products |-> products,
                              recommendations |-> recommendations,
                              market_data |-> market_data, now |-> now]]
    /\ UNCHANGED <<products, recommendations, market_data, now, last, reqs, ids>>

\* the second call, with the same arguments
RepeatSecond ==
    /\ call.fn = "optimize_price twice"
    /\ call.calls = 1
    /\ call' = [call EXCEPT
                  !.calls = 2,
                  !.second = optimize_price(call.product, call.competitor_prices)]
    /\ UNCHANGED <<products, recommendations, market_data, now, last, reqs, ids>>

\* the requests that run before, between and after the two calls; the
\* optimizer is also called by create_recommendation
NextRepeat ==
    \/ RepeatFirst
    \/ RepeatSecond
    \/ \E p \in ProductIds : create_recommendation("u1", p)
    \/ \E p \in ProductIds, upd \in ProductUpdates : update_product("u1", p, upd)
    \/ \E p \in ProductIds, found \in ScrapeResults : scan_prices("u1", p, found)
    \/ \E d \in ClockSteps : AdvanceClock(d)

SpecRepeat == InitRepeat /\ [][NextRepeat]_vars

-----------------------------------------------------------------------------
(* The elasticity endpoint as a function of the product row and of the     *)
(* recommendation's suggested price.                                       *)

\* the products asked about: category, cost, current price and sales velocity
CurveProducts ==
    [category : {"Other", "Shapewear"},
     cost_price : {R(x) : x \in {0, 8, 2500, 4000, 7100, 8000, 12000}},
     current_price : {R(x) : x \in {0, 10, 5000, 10000}},
     sales_velocity : {0, 10, 51}]

CurveSuggested == {0, 9000, 12000}

\* every power the endpoint takes for this product and suggested price is a
\* rational number
ExactContext(product, suggested_price) ==
    LET elasticity ==
            _estimate_elasticity(product.category, product.sales_velocity,
                                 CurrentMargin(product.current_price,
                                               product.cost_price))
    IN  elasticity[2] = 1 \/ product.current_price = Zero

InitCurve ==
    /\ products = InitProducts
    /\ recommendations = <<>>
    /\ market_data = <<>>
    /\ now = 0
    /\ last = [op |-> "none", code |-> 0, rec_id |-> 0, scraped |-> FALSE]
    /\ reqs = [i \in Slots |-> Idle]
    /\ ids = [rec |-> 0, md |-> 0]
    /\ call \in { c \in [fn : {"get_elasticity_curve"},
                        product : CurveProducts,
                        suggested_price : {R(x) : x \in CurveSuggested},
                        done : {FALSE}, result : {Null}, raised : {FALSE}] :
                  ExactContext(c.product, c.suggested_price) }

CallCurve ==
    /\ call.fn = "get_elasticity_curve"
    /\ ~call.done
    /\ call' = [call EXCEPT
                  !.done = TRUE,
                  !.result = elasticity_response(call.product, call.suggested_price),
                  !.raised = elasticity_raises(call.product, call.suggested_price)]
    /\ UNCHANGED <<products, recommendations, market_data, now, last, reqs, ids>>

SpecCurve == InitCurve /\ [][CallCurve]_vars

\* the endpoint has answered
CurveDone == call.fn = "get_elasticity_curve" /\ call.done

\* optimize_price and the elasticity endpoint, each called once on a product
\* context of its own bounded set
SpecNeverFail == (InitOptimize \/ InitCurve) /\ [][CallOptimize \/ CallCurve]_vars

\* C12: optimize and the elasticity-curve computation never fail for any
\* non-negative cost, current price and velocity, including cost = 0 and
\* current = 0, and any finite sample list: no division raises, current
\* margin is 0 when current <= 0, predicted margin is 0 when suggestedPrice
\* <= 0, and where the closed form does not apply the optimal price is the
\* discrete maximum of the curve, never an error outcome.
C12_NeverFails ==
    /\ Optimized =>
          /\ ~call.raised
          /\ RLe(call.product.current_price, Zero) =>
                CurrentMargin(call.product.current_price,
                              call.product.cost_price) = Zero
          /\ RLe(call.result.suggestedPrice, Zero) =>
                call.result.predictedMargin = Zero
    /\ CurveDone =>
          /\ ~call.raised
          /\ call.result.optimalBranch \in {"closed form", "discrete maximum"}
          /\ RLe(call.product.current_price, Zero) =>
                CurrentMargin(call.product.current_price,
                              call.product.cost_price) = Zero
          /\ ~(RLt(R(1), call.result.elasticity)
               /\ RLt(Zero, call.product.cost_price)) =>
                LET best == DiscreteMax(call.result.curve) IN
                /\ call.result.optimalPrice = best.price
                /\ call.result.optimalDemand = best.demand
                /\ call.result.optimalProfit = best.profit

\* the endpoint has answered for a product with cost 0 and current price 0
C12_Witness ==
    /\ CurveDone
    /\ call.product.cost_price = Zero
    /\ call.product.current_price = Zero
    /\ call.result.optimalProfit = Zero

\* the prices of the curve that was returned
CurvePrices == [k \in 1..Len(call.result.curve) |-> call.result.curve[k].price]

\* C13: for every product context the elasticity curve has exactly 20
\* points, its first price is max(cost x 0.8, current x 0.5), its last price
\* is min(current x 2.0, current x 1.5), the points are equally spaced, and
\* the prices are in non-decreasing order.  The prices are read as they are
\* returned, in whole cents: the first and the last are the bounds rounded
\* to the cent, and each step is within a cent of a nineteenth of the range.
C13_CurveShape ==
    CurveDone =>
       LET first == CurveMinPrice(call.product.cost_price, call.product.current_price)
           last_ == CurveMaxPrice(call.product.current_price)
           step  == RDiv(RSub(last_, first), R(19))
       IN  /\ Len(CurvePrices) = 20
           /\ CurvePrices[1] = Round2(first)
           /\ CurvePrices[20] = Round2(last_)
           /\ \A k \in 1..19 :
                 /\ RLe(RAbs(RSub(RSub(CurvePrices[k+1], CurvePrices[k]), step)), R(1))
                 /\ RLe(CurvePrices[k], CurvePrices[k+1])

\* the profits of the curve that was returned, in order of the points
CurveProfits == [k \in 1..Len(call.result.curve) |-> call.result.curve[k].profit]

\* C14: the optimalProfit reported by the elasticity endpoint is at least
\* the profit of each of the 20 curve points: the closed-form optimum is
\* reported only when its profit is >= the best sampled point's profit,
\* otherwise the best sampled point is reported.
C14_OptimalProfit ==
    CurveDone =>
       LET best   == DiscreteMax(call.result.curve)
           closed == ClosedForm(call.product, call.result.elasticity,
                                call.result.baseDemand)
       IN  /\ \A k \in 1..20 : RLe(CurveProfits[k], call.result.optimalProfit)
           /\ call.result.optimalBranch = "closed form" =>
                 /\ RLe(best.profit, closed.profit)
                 /\ call.result.optimalProfit = Round2(closed.profit)
           /\ call.result.optimalBranch # "closed form" =>
                 /\ call.result.optimalPrice = best.price
                 /\ call.result.optimalProfit = best.profit

\* elasticity 2.0, cost 71.00, current price 100.00: the closed form gives a
\* lower profit than the best point of the curve, and the point is reported
C14_Witness ==
    /\ CurveDone
    /\ RLt(R(1), call.result.elasticity)
    /\ RLt(Zero, call.product.cost_price)
    /\ RLt(Zero, call.product.current_price)
    /\ RLt(ClosedForm(call.product, call.result.elasticity,
                      call.result.baseDemand).profit,
           DiscreteMax(call.result.curve).profit)
    /\ call.result.optimalProfit = DiscreteMax(call.result.curve).profit

\* C15: whenever the estimated elasticity is greater than 1, the profit
\* values of the 20 curve points, read in order of price, have a single
\* local maximum: they never decrease and later increase again.
C15_Unimodal ==
    (CurveDone /\ RLt(R(1), call.result.elasticity)) =>
       ~ \E i, j \in 1..19 :
            /\ i < j
            /\ RLe(CurvePrices[i], CurvePrices[i+1])
            /\ RLe(CurvePrices[j], CurvePrices[j+1])
            /\ RLt(CurveProfits[i+1], CurveProfits[i])
            /\ RLt(CurveProfits[j], CurveProfits[j+1])

-----------------------------------------------------------------------------
(* The validator on its own: _validate_scraped_price applied to a price, a *)
(* cost, a current price and a source.  Money is in cents.                 *)

\* the price, the cost and the current price of a call
ValAmounts ==
    [price : { R(n) : n \in {0, 1, 1999, 2000, 3999, 4000, 7999, 8000, 9999,
                             10000, 10001, 100001, 200000, 200001, 240000,
                             240001, 300000, 300001, 100000000, 100000001} },
     cost_price : { R(n) : n \in {-500, 0, 1000, 10000, 20000} },
     current_price : { R(n) : n \in {0, 1000, 40000} }]

\* a source as the scraper names it, in several spellings; "" is no source
ValSources ==
    {"", "amazon", "Amazon", "AMAZON", "WAYFAIR", "BestBuy", "ebay", "eBay",
     "google_shopping"}

InitValidate ==
    /\ products = InitProducts
    /\ recommendations = <<>>
    /\ market_data = <<>>
    /\ now = 0
    /\ last = [op |-> "none", code |-> 0, rec_id |-> 0, scraped |-> FALSE]
    /\ reqs = [i \in Slots |-> Idle]
    /\ ids = [rec |-> 0, md |-> 0]
    /\ call \in { [fn |-> "_validate_scraped_price", price |-> a.price,
                   cost_price |-> a.cost_price,
                   current_price |-> a.current_price, source |-> s,
                   done |-> FALSE, result |-> Null] :
                  a \in ValAmounts, s \in ValSources }

CallValidate ==
    /\ call.fn = "_validate_scraped_price"
    /\ ~call.done
    /\ call' = [call EXCEPT !.done = TRUE,
                            !.result = _validate_scraped_price(
                                           call.price, call.cost_price,
                                           call.current_price, call.source)]
    /\ UNCHANGED <<products, recommendations, market_data, now, last, reqs, ids>>

SpecValidate == InitValidate /\ [][CallValidate]_vars

\* the call has returned
Validated == call.fn = "_validate_scraped_price" /\ call.done

C17_TrustTier ==
    (Validated /\ ~IsMajorRetailer(call.source) /\ call.result = TRUE)
    => \A s \in major_retailers \cup { n \in ValSources : IsMajorRetailer(n) } :
          _validate_scraped_price(call.price, call.cost_price,
                                  call.current_price, s)

\* a price accepted from ebay at exactly half the cost, with a cost and a
\* current price that both apply
C17_Witness ==
    /\ Validated
    /\ call.source = "ebay"
    /\ call.price = R(10000)
    /\ call.cost_price = R(20000)
    /\ call.current_price = R(40000)
    /\ call.result = TRUE
    /\ Cardinality({ n \in ValSources : IsMajorRetailer(n) }) = 5

-----------------------------------------------------------------------------
(* Python floats as IEEE 754 binary64 values, for the one place where the  *)
(* last bit of a result decides a comparison: the average of a session of  *)
(* the market-data trend.  A positive float is its significand, Precision  *)
(* bits with the first one set, and the exponent of its last bit; the      *)
(* value is significand x 2^e.  Prices are positive and far from the ends  *)
(* of the exponent range, so neither signs nor subnormals nor infinities   *)
(* occur.                                                                  *)

\* the significand of a binary64 float, the type of Column(db.Float)
Precision == 53

FZero == [m |-> <<>>, e |-> 0]

Zeros(n) == [i \in 1..n |-> 0]

\* the binary digits of a natural number, most significant first
RECURSIVE BitsOf(_)
BitsOf(n) == IF n = 0 THEN <<>> ELSE Append(BitsOf(n \div 2), n % 2)

\* the sum of two digit strings of one length, least significant digit
\* first, and a carry, halves at a time: <<sum digits, carry out>>
RECURSIVE AddWithCarry(_, _, _)
AddWithCarry(a, b, carry) ==
    IF Len(a) = 0 THEN <<(<<>>), carry>>
    ELSE IF Len(a) = 1
    THEN <<(<<(a[1] + b[1] + carry) % 2>>), (a[1] + b[1] + carry) \div 2>>
    ELSE LET h    == Len(a) \div 2
             low  == AddWithCarry(SubSeq(a, 1, h), SubSeq(b, 1, h), carry)
             high == AddWithCarry(SubSeq(a, h + 1, Len(a)),
                                  SubSeq(b, h + 1, Len(b)), low[2])
         IN  <<low[1] \o high[1], high[2]>>

\* long division of the digit string b by the natural number d, begun with
\* the remainder r, halves at a time: <<quotient digits, remainder>>
RECURSIVE DivFrom(_, _, _)
DivFrom(b, d, r) ==
    IF Len(b) = 0 THEN <<(<<>>), r>>
    ELSE IF Len(b) = 1
    THEN LET r1 == 2 * r + b[1]
         IN  IF r1 >= d THEN <<(<<1>>), r1 - d>> ELSE <<(<<0>>), r1>>
    ELSE LET h     == Len(b) \div 2
             left  == DivFrom(SubSeq(b, 1, h), d, r)
             right == DivFrom(SubSeq(b, h + 1, Len(b)), d, left[2])
         IN  <<left[1] \o right[1], right[2]>>

\* round to nearest, ties to even: the float nearest to b0 x 2^e, where
\* inexact says that digits beyond b0 were dropped
RoundBits(b0, e, inexact) ==
    LET StripZeros(d) ==
            IF \A i \in 1..Len(d) : d[i] = 0 THEN <<>>
            ELSE LET first == CHOOSE i \in 1..Len(d) :
                                  d[i] = 1 /\ \A j \in 1..(i - 1) : d[j] = 0
                 IN  SubSeq(d, first, Len(d))
        IncBits(d) ==
            IF \A i \in 1..Len(d) : d[i] = 1 THEN <<1>> \o Zeros(Len(d))
            ELSE LET last0 == CHOOSE i \in 1..Len(d) :
                                  d[i] = 0 /\ \A j \in (i + 1)..Len(d) : d[j] = 1
                 IN  [i \in 1..Len(d) |->
                         IF i < last0 THEN d[i] ELSE IF i = last0 THEN 1 ELSE 0]
        b == StripZeros(b0)
        n == Len(b)
    IN  IF n = 0 THEN FZero
        ELSE IF n <= Precision
        THEN [m |-> b \o Zeros(Precision - n), e |-> e - (Precision - n)]
        ELSE LET keep == SubSeq(b, 1, Precision)
                 half == b[Precision + 1] = 1
                 more == inexact \/ \E i \in (Precision + 2)..n : b[i] = 1
                 up   == half /\ (more \/ keep[Precision] = 1)
                 m1   == IF up THEN IncBits(keep) ELSE keep
             IN  IF Len(m1) > Precision
                 THEN [m |-> SubSeq(m1, 1, Precision), e |-> e + n - Precision + 1]
                 ELSE [m |-> m1, e |-> e + n - Precision]

\* the float nearest to the non-negative rational q: what a decimal literal
\* or a parsed number denotes
Double(q) ==
    IF q[1] = 0 THEN FZero
    ELSE LET shift == Precision + 2 + Len(BitsOf(q[2]))
             qr    == DivFrom(BitsOf(q[1]) \o Zeros(shift), q[2], 0)
         IN  RoundBits(qr[1], -shift, qr[2] # 0)

\* x + y: the exact sum of the significands, aligned, then rounded
FAdd(x, y) ==
    IF x = FZero THEN y
    ELSE IF y = FZero THEN x
    ELSE LET e  == IF x.e < y.e THEN x.e ELSE y.e
             a0 == x.m \o Zeros(x.e - e)
             b0 == y.m \o Zeros(y.e - e)
             n  == IF Len(a0) > Len(b0) THEN Len(a0) ELSE Len(b0)
             a  == Zeros(n + 1 - Len(a0)) \o a0
             b  == Zeros(n + 1 - Len(b0)) \o b0
             Reverse(s) == [i \in 1..Len(s) |-> s[Len(s) + 1 - i]]
         IN  RoundBits(Reverse(AddWithCarry(Reverse(a), Reverse(b), 0)[1]),
                       e, FALSE)

\* x / n for a positive int n: the int is converted exactly
FDivInt(x, n) ==
    IF n = 0 THEN DivZero
    ELSE IF x = FZero THEN FZero
    ELSE LET qr == DivFrom(x.m \o Zeros(Precision), n, 0)
         IN  RoundBits(qr[1], x.e - Precision, qr[2] # 0)

\* sum(prices): the int 0, then one float addition per element, in order
RECURSIVE FSum(_)
FSum(s) ==
    IF s = <<>> THEN FZero
    ELSE FAdd(FSum(SubSeq(s, 1, Len(s) - 1)), s[Len(s)])

FLt(x, y) ==
    IF y = FZero THEN FALSE
    ELSE IF x = FZero THEN TRUE
    ELSE IF x.e # y.e THEN x.e < y.e
    ELSE \E i \in 1..Precision :
            x.m[i] < y.m[i] /\ \A j \in 1..(i - 1) : x.m[j] = y.m[j]

-----------------------------------------------------------------------------
(* DELETE /products/<id>: delete_product.  The relationships of Product to *)
(* Recommendation and to MarketData cascade 'all, delete-orphan'.          *)

\* the rows of a table that belong to the product
RowsOf(rows, product_id) ==
    SelectSeq(rows, LAMBDA r : r.product_id = product_id)

\* the cascade that leaves the samples of the deleted product in the table
SurvivingMarketDataKept(product_id) == market_data

\* the MarketData rows left after the product and its children are deleted
SurvivingMarketData(product_id) ==
    SelectSeq(market_data, LAMBDA r : r.product_id # product_id)

delete_product(user, product_id) ==
    /\ UNCHANGED <<now, reqs, ids, call>>
    /\ IF ~OwnedProduct(user, product_id)
       THEN /\ last' = [op |-> "delete_product", code |-> 404, rec_id |-> 0,
                        scraped |-> FALSE]
            /\ UNCHANGED <<products, recommendations, market_data>>
       ELSE /\ products' = [p \in DOMAIN products \ {product_id} |-> products[p]]
            /\ recommendations' =
                  SelectSeq(recommendations,
                            LAMBDA r : r.product_id # product_id)
            /\ market_data' = SurvivingMarketData(product_id)
            /\ last' = [op |-> "delete_product", code |-> 200, rec_id |-> 0,
                        scraped |-> FALSE]

-----------------------------------------------------------------------------
(* GET /products/<id>/market-data: get_product_market_data.  A timestamp   *)
(* is in minutes since midnight of day 0; prices in the response are the   *)
(* stored ones, and the average of a session is the float the division     *)
(* gives.                                                                  *)

\* the stored price, in cents, as the float of the column
PriceFloat(price) == Double(RDiv(price, R(100)))

\* scraped_at.strftime('%Y-%m-%d %H:00'): the date and the hour
SessionKey(scraped_at) ==
    <<scraped_at \div 1440, (scraped_at % 1440) \div 60>>

\* the order of the keys as strings: by date, then by hour
KeyLt(k1, k2) == k1[1] < k2[1] \/ (k1[1] = k2[1] /\ k1[2] < k2[2])

\* order_by(MarketData.scraped_at.asc()): rows with one timestamp stay in
\* the order of insertion
RECURSIVE OrderByScrapedAt(_)
OrderByScrapedAt(rows) ==
    IF rows = <<>> THEN <<>>
    ELSE LET front  == OrderByScrapedAt(SubSeq(rows, 1, Len(rows) - 1))
             row    == rows[Len(rows)]
             before == SelectSeq(front, LAMBDA r : r.scraped_at <= row.scraped_at)
             after  == SelectSeq(front, LAMBDA r : r.scraped_at > row.scraped_at)
         IN  before \o <<row>> \o after

\* sorted(scan_sessions.keys())
RECURSIVE SortedKeys(_)
SortedKeys(keys) ==
    IF keys = {} THEN <<>>
    ELSE LET first == CHOOSE k \in keys : \A other \in keys \ {k} : KeyLt(k, other)
         IN  <<first>> \o SortedKeys(keys \ {first})

\* scan_sessions[session_key]
SessionData(rows, key) ==
    SelectSeq(rows, LAMBDA md : SessionKey(md.scraped_at) = key)

\* sum(prices) / len(prices)
SessionAverage(prices) ==
    FDivInt(FSum([i \in 1..Len(prices) |-> PriceFloat(prices[i])]), Len(prices))

\* one entry of trend_data
TrendEntry(session_data) ==
    LET prices == PricesOf(session_data)
    IN  [date      |-> session_data[1].scraped_at \div 1440,
         timestamp |-> session_data[1].scraped_at,
         average   |-> SessionAverage(prices),
         min       |-> RMin(prices),
         max       |-> RMax(prices),
         count     |-> Len(prices),
         sources   |-> Cardinality({ session_data[i].source :
                                       i \in 1..Len(session_data) })]

\* the session whose prices make the distribution, taken as the oldest
MostRecentSessionOldest(keys) == keys[1]

\* sorted(scan_sessions.keys())[-1]
MostRecentSession(keys) == keys[Len(keys)]

RECURSIVE Flatten(_)
Flatten(lists) ==
    IF lists = <<>> THEN <<>> ELSE Head(lists) \o Flatten(Tail(lists))

\* the body of the 200 response for the rows of the product
MarketDataBody(product, rows) ==
    IF rows = <<>>
    THEN [trend |-> <<>>, currentDistribution |-> <<>>, allPrices |-> <<>>,
          productPrice |-> product.current_price, totalDataPoints |-> 0]
    ELSE LET keys == SortedKeys({ SessionKey(rows[i].scraped_at) :
                                    i \in 1..Len(rows) })
             trend_data ==
                 [k \in 1..Len(keys) |-> TrendEntry(SessionData(rows, keys[k]))]
             all_prices ==
                 Flatten([k \in 1..Len(keys) |->
                             PricesOf(SessionData(rows, keys[k]))])
             recent_prices ==
                 IF Len(keys) = 1 THEN all_prices
                 ELSE PricesOf(SessionData(rows, MostRecentSession(keys)))
         IN  [trend |-> trend_data,
              currentDistribution |->
                  IF recent_prices = <<>> THEN all_prices ELSE recent_prices,
              allPrices |-> all_prices,
              productPrice |-> product.current_price,
              totalDataPoints |-> Len(rows),
              scanSessions |-> Len(keys)]

get_product_market_data(user, product_id) ==
    /\ UNCHANGED <<products, recommendations, market_data, now, reqs, ids, call>>
    /\ IF ~OwnedProduct(user, product_id)
       THEN last' = [op |-> "get_product_market_data", code |-> 404,
                     rec_id |-> 0, scraped |-> FALSE]
       ELSE last' = [op |-> "get_product_market_data", code |-> 200,
                     rec_id |-> 0, scraped |-> FALSE,
                     product_id |-> product_id,
                     body |-> MarketDataBody(
                                  products[product_id],
                                  OrderByScrapedAt(RowsOf(market_data, product_id)))]

-----------------------------------------------------------------------------
(* The market data of two products: scans at several times of two days,    *)
(* reads of the history and deletions.                                     *)

MaxMarketRows == 5

\* two scans in one hour, one in the next hour, one a day after the first
MarketTimes == {0, 40, 80, 1480}

\* what a scan may find: one price at three retailers, two prices, a price
\* the validation rejects
MarketScrapeResults ==
    { <<[price |-> R(9560), source |-> "amazon"],
        [price |-> R(9560), source |-> "walmart"],
        [price |-> R(9560), source |-> "target"]>>,
      <<[price |-> R(12000), source |-> "ebay"],
        [price |-> R(9000), source |-> "ebay"]>>,
      <<[price |-> R(1000), source |-> "ebay"]>> }

MarketProducts ==
    [p \in {"p1", "p2"} |->
        [owner |-> IF p = "p1" THEN "u1" ELSE "u2", category |-> "Other",
         cost_price |-> R(5000), current_price |-> R(10000),
         competitor_price |-> Null, sales_velocity |-> 10]]

InitMarket ==
    /\ products = MarketProducts
    /\ recommendations = <<>>
    /\ market_data = <<>>
    /\ now = 0
    /\ last = [op |-> "none", code |-> 0, rec_id |-> 0, scraped |-> FALSE]
    /\ reqs = [i \in Slots |-> Idle]
    /\ ids = [rec |-> 0, md |-> 0]
    /\ call = NoCall

\* time passes, to one of the times of the model
MarketClock(t) ==
    /\ t > now
    /\ now' = t
    /\ UNCHANGED <<products, recommendations, market_data, last, reqs, ids, call>>

NextMarket ==
    \/ \E u \in Users, p \in ProductIds, found \in MarketScrapeResults :
          scan_prices_within(u, p, found, MaxMarketRows)
    \/ \E u \in Users, p \in ProductIds : get_product_market_data(u, p)
    \/ \E u \in Users, p \in ProductIds : delete_product(u, p)
    \/ \E t \in MarketTimes : MarketClock(t)

SpecMarket == InitMarket /\ [][NextMarket]_vars

\* a history has been returned
GotMarketData == last.op = "get_product_market_data" /\ last.code = 200

\* the samples the history returned was made from: a read changes nothing
SamplesRead == RowsOf(market_data, last.product_id)

\* C18: the trend has one entry per distinct (date, hour) of the samples of
\* the product, in chronological order; the counts of the entries add up to
\* the number of samples; in each entry min <= average <= max and
\* 1 <= distinct sources <= count
C18_Trend ==
    GotMarketData
    => LET trend   == last.body.trend
           buckets == { SessionKey(SamplesRead[i].scraped_at) :
                          i \in 1..Len(SamplesRead) }
       IN  /\ Len(trend) = Cardinality(buckets)
           /\ { SessionKey(trend[i].timestamp) : i \in 1..Len(trend) } = buckets
           /\ \A i, j \in 1..Len(trend) :
                 i < j => trend[i].timestamp < trend[j].timestamp
           /\ RSum([i \in 1..Len(trend) |-> R(trend[i].count)])
                 = R(Len(SamplesRead))
           /\ \A i \in 1..Len(trend) :
                 /\ ~FLt(trend[i].average, PriceFloat(trend[i].min))
                 /\ ~FLt(PriceFloat(trend[i].max), trend[i].average)
                 /\ 1 <= trend[i].sources
                 /\ trend[i].sources <= trend[i].count

\* C19: the current distribution is the list of the prices of the latest
\* session, all prices when there is one session; with no samples the trend,
\* the distribution and the price list are empty and the total is 0
C19_Distribution ==
    GotMarketData
    => LET latest(md) ==
               \A i \in 1..Len(SamplesRead) :
                   ~KeyLt(SessionKey(md.scraped_at),
                          SessionKey(SamplesRead[i].scraped_at))
       IN  /\ last.body.currentDistribution =
                 PricesOf(SelectSeq(SamplesRead, latest))
           /\ SamplesRead = <<>> =>
                 /\ last.body.trend = <<>>
                 /\ last.body.currentDistribution = <<>>
                 /\ last.body.allPrices = <<>>
                 /\ last.body.totalDataPoints = 0

\* a session of three samples, then one of two: the distribution is the
\* later one
C19_Witness ==
    /\ GotMarketData
    /\ Len(last.body.trend) = 2
    /\ last.body.currentDistribution = <<R(12000), R(9000)>>
    /\ last.body.allPrices = <<R(9560), R(9560), R(9560), R(12000), R(9000)>>

\* the empty history
C19_WitnessEmpty ==
    /\ GotMarketData
    /\ last.body.totalDataPoints = 0
    /\ last.body.trend = <<>>

-----------------------------------------------------------------------------
(* Every request that writes to the store, deletions included, on two      *)
(* products, within one day                                                *)

MaxStoreRows == 2

NextStore ==
    \/ \E u \in Users, p \in ProductIds : create_recommendation(u, p)
    \/ \E u \in Users, r \in 1..(ids.rec + 1), data \in ConcPatchBodies :
          update_recommendation(u, r, data)
    \/ \E u \in Users, p \in ProductIds, upd \in ProductUpdates :
          update_product(u, p, upd)
    \/ \E u \in Users, p \in ProductIds, found \in ScrapeResults :
          scan_prices_within(u, p, found, MaxStoreRows)
    \/ \E u \in Users, p \in ProductIds : delete_product(u, p)

SpecStore == InitMarket /\ [][NextStore]_vars

\* C20: a MarketData row never changes after it is created and leaves the
\* table only in a step that deletes its product; a step that deletes a
\* product leaves none of its samples and none of its recommendations
C20_SamplesFrame ==
    [][ LET DeletedProducts == DOMAIN products \ DOMAIN products'
        IN  /\ \A i \in 1..Len(market_data) :
                 LET row == market_data[i]
                 IN  \/ \E j \in 1..Len(market_data') : market_data'[j] = row
                     \/ /\ row.product_id \in DeletedProducts
                        /\ \A j \in 1..Len(market_data') :
                              market_data'[j].id # row.id
            /\ \A p \in DeletedProducts :
                 /\ RowsOf(market_data', p) = <<>>
                 /\ RowsOf(recommendations', p) = <<>> ]_vars

\* a product with a sample and a recommendation has been deleted, and the
\* sample of the other product is still there
C20_Witness ==
    /\ last.op = "delete_product"
    /\ last.code = 200
    /\ DOMAIN products = {"p2"}
    /\ ids.md = 2
    /\ ids.rec >= 1
    /\ recommendations = <<>>
    /\ Len(market_data) = 1
    /\ market_data[1].product_id = "p2"

-----------------------------------------------------------------------------
(* GET /recommendations/<id>/elasticity: get_elasticity_curve, as a        *)
(* request on the store.  The handler reads the recommendation and its     *)
(* product and writes nothing; the body of its 200 response is             *)
(* elasticity_response(product, suggested_price).                          *)

get_elasticity_curve(user, recommendation_id) ==
    /\ UNCHANGED <<products, recommendations, market_data, now, reqs, ids, call>>
    /\ IF ~OwnedRecommendation(user, recommendation_id)
       THEN last' = [op |-> "get_elasticity_curve", code |-> 404,
                     rec_id |-> 0, scraped |-> FALSE]
       ELSE last' = [op |-> "get_elasticity_curve", code |-> 200,
                     rec_id |-> recommendation_id, scraped |-> FALSE]

-----------------------------------------------------------------------------
(* Two users, each with one product, and every request either may send     *)

\* PATCH bodies of the recommendation: apply or reject, with or without
\* applyPrice
OwnerPatchBodies == [status : {"applied", "rejected"}, applyPrice : BOOLEAN]

NextOwners ==
    \/ \E u \in Users, p \in ProductIds : create_recommendation(u, p)
    \/ \E u \in Users, r \in 1..(ids.rec + 1), data \in OwnerPatchBodies :
          update_recommendation(u, r, data)
    \/ \E u \in Users, r \in 1..(ids.rec + 1) : get_elasticity_curve(u, r)
    \/ \E u \in Users, p \in ProductIds, upd \in ProductUpdates :
          update_product(u, p, upd)
    \/ \E u \in Users, p \in ProductIds, found \in ScrapeResults :
          scan_prices(u, p, found)
    \/ \E u \in Users, p \in ProductIds : delete_product(u, p)

SpecOwners == InitMarket /\ [][NextOwners]_vars

\* C21: computing a recommendation (create or refresh) and computing the
\* elasticity curve leave the product's cost price, current price, category
\* and sales velocity unchanged; the current price of a product changes only
\* in an apply request (the recommendation becomes applied and its suggested
\* price is the new price) or in a product update.
C21_ProductFrame ==
    [][ \A p \in DOMAIN products :
          /\ last'.op \in {"create_recommendation", "get_elasticity_curve"}
             => /\ p \in DOMAIN products'
                /\ products'[p].cost_price = products[p].cost_price
                /\ products'[p].current_price = products[p].current_price
                /\ products'[p].category = products[p].category
                /\ products'[p].sales_velocity = products[p].sales_velocity
          /\ (p \in DOMAIN products'
              /\ products'[p].current_price # products[p].current_price)
             => \/ last'.op = "update_product" /\ last'.code = 200
                \/ /\ last'.op = "update_recommendation"
                   /\ last'.code = 200
                   /\ RecIn(recommendations', last'.rec_id).product_id = p
                   /\ RecIn(recommendations', last'.rec_id).status = "applied"
                   /\ products'[p].current_price =
                         RecIn(recommendations', last'.rec_id).fields.suggestedPrice
      ]_vars

\* a pending recommendation of a product whose price was updated to 120.00
\* has been refreshed: its outputs are those for the new price, and the
\* product still has that price
C21_Witness ==
    /\ last.op = "create_recommendation"
    /\ last.code = 200
    /\ "p1" \in DOMAIN products
    /\ products["p1"].current_price = R(12000)
    /\ products["p1"].cost_price = R(5000)
    /\ RecById(last.rec_id).product_id = "p1"
    /\ RecById(last.rec_id).status = "pending"
    /\ RecById(last.rec_id).fields.suggestedPrice = R(9000)
    /\ RecById(last.rec_id).fields.implementationTiming = "Phased - Monitor closely"

-----------------------------------------------------------------------------
(* The statistics, the floor step, the timing and the rounding of          *)
(* optimize_price                                                          *)

\* C22: when current > 0 and samples exist, the market average, minimum and
\* maximum are those of the samples within [current x 0.1, current x 5.0] if
\* at least one sample lies in that range, and those of all samples given if
\* none does; in the latter case the strategy is still "Match Market", with
\* the unfiltered sample count.  The minimum and the maximum are read from
\* the response, rounded to 2 decimals; the average is read from
\* suggestedPrice where the floor step leaves it alone.
C22_SecondaryFilter ==
    (Optimized /\ RLt(Zero, call.product.current_price)
               /\ call.competitor_prices # <<>>)
    => LET low     == RMul(call.product.current_price, <<1, 10>>)
           high    == RMul(call.product.current_price, R(5))
           inrange == SelectSeq(call.competitor_prices,
                                LAMBDA p : RLe(low, p) /\ RLe(p, high))
           used    == IF inrange # <<>> THEN inrange ELSE call.competitor_prices
           average == RDiv(RSum(used), R(Len(used)))
       IN  /\ call.result.competitorMinPrice = Round2(RMin(used))
           /\ call.result.competitorMaxPrice = Round2(RMax(used))
           /\ call.result.rationale.sources = Len(used)
           /\ call.result.strategy = "Match Market"
           /\ RLe(RMul(call.product.cost_price, <<12, 10>>), average)
              => call.result.suggestedPrice = Round2(average)
           /\ inrange = <<>>
              => call.result.rationale.sources = Len(call.competitor_prices)

\* current 1000.00 and samples 80.00 and 90.00, both below current x 0.1:
\* the statistics are those of the two samples
C22_Witness ==
    /\ Optimized
    /\ call.product.current_price = R(100000)
    /\ call.product.cost_price = R(5000)
    /\ call.competitor_prices = <<R(8000), R(9000)>>
    /\ call.result.strategy = "Match Market"
    /\ call.result.rationale.sources = 2
    /\ call.result.competitorMinPrice = R(8000)
    /\ call.result.competitorMaxPrice = R(9000)
    /\ call.result.suggestedPrice = R(8500)

\* C23 as stated: when the price chosen before the floor step is below
\* cost x 1.2 and also below cost x 1.1, optimize returns that price
\* unmodified as suggestedPrice, sets riskLevel = high and appends a warning
\* to the rationale, with samples and without.
C23_BelowFloorExact ==
    (Optimized /\ RLt(PriceBeforeFloor, RMul(call.product.cost_price, <<12, 10>>))
               /\ RLt(PriceBeforeFloor, RMul(call.product.cost_price, <<11, 10>>)))
    => /\ call.result.suggestedPrice = PriceBeforeFloor
       /\ call.result.riskLevel = "high"
       /\ call.result.rationale.note = "warning"

\* C23 amended: when the price chosen before the floor step is below
\* cost x 1.2 and also below cost x 1.1, optimize returns that price rounded
\* to 2 decimals as suggestedPrice, never raised to the floor, sets
\* riskLevel = high and appends a warning to the rationale, with samples and
\* without.
C23_BelowFloor ==
    (Optimized /\ RLt(PriceBeforeFloor, RMul(call.product.cost_price, <<12, 10>>))
               /\ RLt(PriceBeforeFloor, RMul(call.product.cost_price, <<11, 10>>)))
    => /\ call.result.suggestedPrice = Round2(PriceBeforeFloor)
       /\ call.result.riskLevel = "high"
       /\ call.result.rationale.note = "warning"
       /\ call.result.strategy =
             IF call.competitor_prices # <<>> THEN "Match Market" ELSE "No Data"

\* cost 100, current 150, samples [80]: suggestedPrice 80, risk high
C23_Witness ==
    /\ Optimized
    /\ call.product.cost_price = R(10000)
    /\ call.product.current_price = R(15000)
    /\ call.competitor_prices = <<R(8000)>>
    /\ call.result.suggestedPrice = R(8000)
    /\ call.result.riskLevel = "high"
    /\ call.result.rationale.note = "warning"

C25_Rounding ==
    Optimized
    => LET d == MarginFloor(call.product.cost_price,
                            BaseDecision(call.product.current_price, SamplesUsed))
           revenue_impact ==
               RMul(RMul(R(call.product.sales_velocity),
                         RSub(d.suggested_price, call.product.current_price)),
                    R(4))
       IN  /\ call.result.revenueImpact = Round2(revenue_impact)
           /\ call.result.suggestedPrice = Round2(d.suggested_price)
           /\ call.result.competitorMinPrice[2] = 1
           /\ call.result.competitorMaxPrice[2] = 1
           /\ 10 % call.result.predictedMargin[2] = 0

-----------------------------------------------------------------------------
(* The closed form of the elasticity endpoint                              *)

\* C26: whenever elasticity > 1 and cost > 0 and the closed-form branch is
\* reported, the reported optimalPrice equals cost x elasticity /
\* (elasticity - 1) clamped into the interval (and rounded to 2 decimals),
\* so that cost x 1.1 <= optimalPrice <= current x 2.0 holds for every
\* product context.
C26_ClosedFormBounds ==
    (CurveDone /\ RLt(R(1), call.result.elasticity)
               /\ RLt(Zero, call.product.cost_price)
               /\ call.result.optimalBranch = "closed form")
    => LET cost == call.product.cost_price
           calc == RDiv(RMul(cost, call.result.elasticity),
                        RSub(call.result.elasticity, R(1)))
           low  == RMul(cost, <<11, 10>>)
           high == RMul(call.product.current_price, R(2))
           raised  == IF RLt(calc, low) THEN low ELSE calc
           clamped == IF RLt(high, raised) THEN high ELSE raised
       IN  /\ call.result.optimalPrice = Round2(clamped)
           /\ RLe(low, call.result.optimalPrice)
           /\ RLe(call.result.optimalPrice, high)

-----------------------------------------------------------------------------
(* The intake of prices for one product: a competitor price typed in by    *)
(* the user, scans and the create path                                     *)

MaxIntakeRows == 2

\* the PATCH /products bodies and the scrape results of the scans: a
\* competitor price of 10.00 or none, a price of 22.00, of 90.00 or both at
\* amazon, a price of 10.00 at ebay, or nothing
IntakeInputs ==
    [updates |-> { [field |-> "competitorPrice", value |-> R(1000)],
                   [field |-> "competitorPrice", value |-> Zero] },
     found   |-> { <<>>,
                   <<[price |-> R(2200), source |-> "amazon"]>>,
                   <<[price |-> R(9000), source |-> "amazon"]>>,
                   <<[price |-> R(1000), source |-> "ebay"]>>,
                   <<[price |-> R(2200), source |-> "amazon"],
                     [price |-> R(9000), source |-> "amazon"]>> }]

NextIntake ==
    \/ \E u \in Users, p \in ProductIds : create_recommendation(u, p)
    \/ \E u \in Users, p \in ProductIds, upd \in IntakeInputs.updates :
          update_product(u, p, upd)
    \/ \E u \in Users, p \in ProductIds, found \in IntakeInputs.found :
          scan_prices_within(u, p, found, MaxIntakeRows)
    \/ \E d \in ClockSteps : AdvanceClock(d)

SpecIntake == Init /\ [][NextIntake]_vars

\* C27: every price that reaches the optimizer and every stored MarketData
\* row has passed the rules of _validate_scraped_price for the product's
\* cost and current price at that moment: on the create path no scraped
\* price is stored or used, and no product competitor price is used, that
\* the validator would reject.  The optimizer is reached by a create that
\* answers 201 and by one that answers 200 with recent samples.
C27_ValidatedIntake ==
    [][ /\ \A j \in 1..Len(market_data') :
              market_data'[j].id > ids.md
              => LET row == market_data'[j]
                     product == products[row.product_id]
                 IN  _validate_scraped_price(row.price, product.cost_price,
                                             product.current_price, row.source)
        /\ (/\ last'.op = "create_recommendation"
            /\ last'.code \in {200, 201}
            /\ RecIn(recommendations', last'.rec_id).product_id \in DOMAIN products)
           => LET product_id == RecIn(recommendations', last'.rec_id).product_id
                  product == products[product_id]
                  recent  == RecentMarketData(product_id)
              IN  /\ \A i \in 1..Len(recent) :
                        _validate_scraped_price(recent[i].price, product.cost_price,
                                                product.current_price,
                                                recent[i].source)
                  /\ (recent = <<>> /\ last'.code = 201
                      /\ Truthy(product.competitor_price))
                     => _validate_scraped_price(product.competitor_price,
                                                product.cost_price,
                                                product.current_price, "")
      ]_vars

-----------------------------------------------------------------------------
(* A refresh at the same time as an apply or a reject                      *)

\* C28: under any interleaving of a refresh (a create request that found a
\* pending record) with an apply or reject request on the same
\* recommendation, the optimizer output fields of a record are never
\* overwritten once its status is applied or rejected; in particular an
\* applied record's suggestedPrice stays the price that was applied.
C28_TerminalOutputs ==
    [][ \A i \in 1..Len(recommendations) :
          recommendations[i].status \in {"applied", "rejected"}
          => /\ i <= Len(recommendations')
             /\ recommendations'[i].id = recommendations[i].id
             /\ recommendations'[i].fields = recommendations[i].fields ]_vars

-----------------------------------------------------------------------------
(* Owner isolation                                                         *)

\* C30: a status update, elasticity query, create or refresh, scan, update
\* or delete issued by a user for a recommendation or a product that belongs
\* to a store of another user answers not-found and changes no
\* recommendation, product or market-data row; and no request of a user
\* changes the products, the recommendations or the samples of another user.
C30_OwnerIsolation ==
    [][ \A u \in Users :
          LET OnProduct(p) ==
                  \/ /\ last'.op = "create_recommendation"
                     /\ create_recommendation(u, p)
                  \/ /\ last'.op = "update_product"
                     /\ \E upd \in ProductUpdates : update_product(u, p, upd)
                  \/ /\ last'.op = "scan_prices"
                     /\ \E found \in ScrapeResults : scan_prices(u, p, found)
                  \/ /\ last'.op = "delete_product"
                     /\ delete_product(u, p)
              OnRecommendation(r) ==
                  \/ /\ last'.op = "update_recommendation"
                     /\ \E data \in OwnerPatchBodies :
                           update_recommendation(u, r, data)
                  \/ /\ last'.op = "get_elasticity_curve"
                     /\ get_elasticity_curve(u, r)
              NotFound ==
                  /\ last'.code = 404
                  /\ products' = products
                  /\ recommendations' = recommendations
                  /\ market_data' = market_data
              Others ==
                  { p \in DOMAIN products : products[p].owner # u }
          IN  /\ \A p \in Others : OnProduct(p) => NotFound
              /\ \A r \in RecIds :
                    (RecById(r).product_id \in Others /\ OnRecommendation(r))
                    => NotFound
              /\ (\/ \E p \in ProductIds : OnProduct(p)
                  \/ \E r \in 1..(ids.rec + 1) : OnRecommendation(r))
                 => \A p \in Others :
                       /\ p \in DOMAIN products'
                       /\ products'[p] = products[p]
                       /\ RowsOf(recommendations', p) = RowsOf(recommendations, p)
                       /\ RowsOf(market_data', p) = RowsOf(market_data, p) ]_vars

\* both users have their product, each product has a recommendation, one has
\* a sample, and a request to delete a product has been answered not-found:
\* it was sent by the user who does not own it
C30_Witness ==
    /\ last.op = "delete_product"
    /\ last.code = 404
    /\ DOMAIN products = {"p1", "p2"}
    /\ RowsOf(recommendations, "p1") # <<>>
    /\ RowsOf(recommendations, "p2") # <<>>
    /\ market_data # <<>>

====
